---- MODULE Spec2Model ----
(***************************************************************************)
(* Model of the two AST traversals of martlet-proxy's SQL handler:         *)
(*   - the Render Pass   (handler/parser/sql/rewrite: trait SQLReWrite),   *)
(*   - the Analysis Pass (handler/parser/sql/analyse: trait SQLAnalyse).   *)
(*                                                                         *)
(* Text.  A Rust String is modelled as a sequence of atoms.  Every space,  *)
(* quote, bracket, comma, dot and other punctuation character is an atom   *)
(* of its own; a maximal run of letters and digits is one atom.  So        *)
(* " PARTITION (" is << " ", "PARTITION", " ", "(" >>.                     *)
(*                                                                         *)
(* Calls.  The implementation of rewrite for type X is modelled by an      *)
(* operator X_rewrite(x, ctx), and a method call `x.rewrite(f, ctx)` by    *)
(* Rewrite(x, ctx), which selects the implementation by the type of x.     *)
(* Either yields the sequence of events the call performs on the sink, in  *)
(* program order.  An event is a write of one atom, tagged with the        *)
(* context the writing function holds, or a panic.  `?` after a call       *)
(* forwards the callee's outcome, which is what concatenating the event    *)
(* sequences and cutting at the first non-write event (Cut) computes: no   *)
(* event after a panic is performed.  Writes to a String sink never fail   *)
(* (fmt::Write for String always returns Ok).                              *)
(*                                                                         *)
(* Option<T> is a sequence of length 0 (None) or 1 (Some).                 *)
(***************************************************************************)
EXTENDS Integers, Sequences, FiniteSets, TLC

VARIABLES
    f,        \* the output sink after the last call (f: &mut String)
    f_pre,    \* the sink as the caller handed it to the last call
    ctx,      \* the render context the caller supplied (ctx: &HashMap)
    node,     \* the AST node the last call was made on
    trail,    \* the events the last call performed, in order
    res,      \* outcome of the last call: "None", "Ok", "Err" or "Panic"
    pass,     \* which traversal the last call was: "none", "rewrite", "analyse"
    acc,      \* the analysis accumulator after the last call
    acc_pre,  \* the accumulator as the caller handed it to the last call
    mark,     \* the node the stub accumulator fails on (<<>>: none)
    retry     \* what the same call gave when the caller made it again (<<>>: not made)

vars == <<f, f_pre, ctx, node, trail, res, pass, acc, acc_pre, mark, retry>>

-----------------------------------------------------------------------------
(* Bounds of the model.                                                    *)

\* longest list handed to a list combinator
MaxList == 2

\* deepest nesting of an expression below the expression rendered
MaxDepth == 1

-----------------------------------------------------------------------------
(* Events and sequences.                                                   *)

Min(S) == CHOOSE x \in S : \A y \in S : x <= y

RECURSIVE Flatten(_)
Flatten(ss) == IF ss = <<>> THEN <<>> ELSE Head(ss) \o Flatten(Tail(ss))

\* write!(f, ..)? / f.write_str(..)?: writing the atoms of a literal or of a
\* string, by a function holding context c; `checked` says that the Result of
\* the write is handed on to the caller (by `?` or as the value returned)
W(atoms, c) ==
    [i \in 1..Len(atoms) |-> [k |-> "w", a |-> atoms[i], c |-> c, checked |-> TRUE]]

\* write!(f, ..); the Result of the write is dropped
W_unchecked(atoms, c) ==
    [i \in 1..Len(atoms) |-> [k |-> "w", a |-> atoms[i], c |-> c, checked |-> FALSE]]

\* panic!(..) / Option::unwrap() on None, in a function holding context c
Panic(c) == << [k |-> "panic", a |-> "", c |-> c, checked |-> TRUE] >>

\* the events actually performed: those before the first panic or error
Cut(ev) ==
    LET bad == {i \in 1..Len(ev) : ev[i].k \notin {"w", "visit", "call"}}
    IN  IF bad = {} THEN ev ELSE SubSeq(ev, 1, Min(bad) - 1)

Outcome(ev) ==
    LET bad == {i \in 1..Len(ev) : ev[i].k \notin {"w", "visit", "call"}}
    IN  IF bad = {} THEN "Ok"
        ELSE IF ev[Min(bad)].k = "panic" THEN "Panic" ELSE "Err"

\* the text of a sequence of write events
Atoms(ev) == [i \in 1..Len(ev) |-> ev[i].a]

\* sequences over S of length 0..n
SeqsUpTo(S, n) == UNION {[1..m -> S] : m \in 0..n}

\* the atom of the backquote character (U+0060), which a string of this
\* language cannot hold
BQ == "BACKQUOTE"

\* Option<T>
None == <<>>
Some(x) == <<x>>
IsSome(o) == Len(o) = 1
Opt(S) == {None} \cup {Some(x) : x \in S}

-----------------------------------------------------------------------------
(* AST nodes.  Every node is a record with its Rust type in `ty`; an enum  *)
(* carries its variant in `kind`.                                          *)

Ident(v, q) == [ty |-> "Ident", value |-> v, quote_style |-> q]

ObjectName(ids) == [ty |-> "ObjectName", idents |-> ids]

ExprId(id) == [ty |-> "Expr", kind |-> "Identifier", ident |-> id]

ExprValue(v) == [ty |-> "Expr", kind |-> "Value", value |-> v]

Number(text) == [ty |-> "Value", kind |-> "Number", text |-> text]

DataType(kind) == [ty |-> "DataType", kind |-> kind]

Query(projection, from, selection) ==
    [ty |-> "Query", projection |-> projection, from |-> from, selection |-> selection]

DisplaySeparatedOf(slice, sep) == [ty |-> "DisplaySeparated", slice |-> slice, sep |-> sep]

-----------------------------------------------------------------------------
(* The Render Pass.                                                        *)

RECURSIVE Rewrite(_, _)

\* a bug: the separator is written before every item, the first included
DisplaySeparated_leading(slice, sep, c) ==
    Flatten([i \in 1..Len(slice) |-> W(sep, c) \o Rewrite(slice[i], c)])

\* a bug: the items are handed a fresh, empty context
DisplaySeparated_dropctx(slice, sep, c) ==
    Flatten([i \in 1..Len(slice) |->
                W(IF i = 1 THEN <<>> ELSE sep, c) \o Rewrite(slice[i], <<>>)])

\* struct DisplaySeparated { slice, sep }: writes delim, then the item;
\* delim is "" before the first item and sep afterwards.
DisplaySeparated(slice, sep, c) ==
    Flatten([i \in 1..Len(slice) |->
                W(IF i = 1 THEN <<>> ELSE sep, c) \o Rewrite(slice[i], c)])

display_separated(slice, sep, c) == DisplaySeparated(slice, sep, c)

display_comma_separated(slice, c) == DisplaySeparated(slice, <<",", " ">>, c)

\* a bug: every marker is taken to close with itself
Ident_rewrite_selfclosing(self, c) ==
    IF self.quote_style = None THEN W(self.value, c)
    ELSE IF self.quote_style[1] \in {"\"", "'", BQ, "["}
         THEN W(self.quote_style \o self.value \o self.quote_style, c)
         ELSE Panic(c)

\* a bug: an unknown quote marker is ignored
Ident_rewrite_tolerant(self, c) ==
    IF self.quote_style = None THEN W(self.value, c)
    ELSE IF self.quote_style[1] = "["
    THEN W(<<"[">> \o self.value \o <<"]">>, c)
    ELSE IF self.quote_style[1] \in {"\"", "'", BQ}
    THEN W(<<self.quote_style[1]>> \o self.value \o <<self.quote_style[1]>>, c)
    ELSE W(self.value, c)

\* a variant that writes the context's entry for the name when there is one
Ident_rewrite_mapped(self, c) ==
    LET v == IF c # <<>> /\ self.value \in DOMAIN c THEN c[self.value] ELSE self.value IN
    IF self.quote_style = None THEN W(v, c)
    ELSE IF self.quote_style[1] \in {"\"", "'", BQ}
         THEN W(self.quote_style \o v \o self.quote_style, c)
    ELSE IF self.quote_style[1] = "["
         THEN W(<<"[">> \o v \o <<"]">>, c)
         ELSE Panic(c)

Ident_rewrite(self, c) ==
    IF self.quote_style = None THEN W(self.value, c)
    ELSE IF self.quote_style[1] \in {"\"", "'", BQ}
         THEN W(self.quote_style \o self.value \o self.quote_style, c)
    ELSE IF self.quote_style[1] = "["
         THEN W(<<"[">> \o self.value \o <<"]">>, c)
         ELSE Panic(c)

ObjectName_rewrite(self, c) == display_separated(self.idents, <<".">>, c)

String_rewrite(self, c) == W(self, c)

(* -- operators (rewrite/operator.rs) -- *)

UnaryOperator_rewrite(self, c) ==
    W(CASE self.kind = "Plus" -> <<"+">>
        [] self.kind = "Minus" -> <<"-">>
        [] self.kind = "Not" -> <<"NOT">>
        [] self.kind = "PGBitwiseNot" -> <<"~">>
        [] self.kind = "PGSquareRoot" -> <<"|", "/">>
        [] self.kind = "PGCubeRoot" -> <<"|", "|", "/">>
        [] self.kind = "PGPostfixFactorial" -> <<"!">>
        [] self.kind = "PGPrefixFactorial" -> <<"!", "!">>
        [] self.kind = "PGAbs" -> <<"@">>, c)

BinaryOperator_rewrite(self, c) ==
    W(CASE self.kind = "Plus" -> <<"+">>
        [] self.kind = "Minus" -> <<"-">>
        [] self.kind = "Multiply" -> <<"*">>
        [] self.kind = "Divide" -> <<"/">>
        [] self.kind = "Modulus" -> <<"%">>
        [] self.kind = "StringConcat" -> <<"|", "|">>
        [] self.kind = "Gt" -> <<">">>
        [] self.kind = "Lt" -> <<"<">>
        [] self.kind = "GtEq" -> <<">", "=">>
        [] self.kind = "LtEq" -> <<"<", "=">>
        [] self.kind = "Spaceship" -> <<"<", "=", ">">>
        [] self.kind = "Eq" -> <<"=">>
        [] self.kind = "NotEq" -> <<"<", ">">>
        [] self.kind = "And" -> <<"AND">>
        [] self.kind = "Or" -> <<"OR">>
        [] self.kind = "Like" -> <<"LIKE">>
        [] self.kind = "NotLike" -> <<"NOT", " ", "LIKE">>
        [] self.kind = "BitwiseOr" -> <<"|">>
        [] self.kind = "BitwiseAnd" -> <<"&">>
        [] self.kind = "BitwiseXor" -> <<"^">>
        [] self.kind = "PGBitwiseXor" -> <<"#">>
        [] self.kind = "PGBitwiseShiftLeft" -> <<"<", "<">>
        [] self.kind = "PGBitwiseShiftRight" -> <<">", ">">>
        [] self.kind = "ILike" -> <<"ILIKE">>
        [] self.kind = "NotILike" -> <<"NOT", " ", "ILIKE">>, c)

(* -- data types (rewrite/data_type.rs) -- *)

\* fn format_type_with_optional_length(f, sql_type, len)
format_type_with_optional_length(sql_type, len, c) ==
    W(sql_type, c) \o (IF IsSome(len) THEN W(<<"(", ToString(len[1]), ")">>, c) ELSE <<>>)

\* a variant that checks the precision again and leaves the scale out
DataType_Decimal_validating(self, c) ==
    IF IsSome(self.scale) /\ IsSome(self.precision)
    THEN W(<<"NUMERIC", "(", ToString(self.precision[1]), ",",
             ToString(self.scale[1]), ")">>, c)
    ELSE format_type_with_optional_length(<<"NUMERIC">>, self.precision, c)

\* DataType::Decimal(precision, scale); precision.unwrap() panics on None
DataType_Decimal(self, c) ==
    IF IsSome(self.scale)
    THEN IF IsSome(self.precision)
         THEN W(<<"NUMERIC", "(", ToString(self.precision[1]), ",",
                  ToString(self.scale[1]), ")">>, c)
         ELSE Panic(c)
    ELSE format_type_with_optional_length(<<"NUMERIC">>, self.precision, c)

RECURSIVE DataType_rewrite(_, _)
DataType_rewrite(self, c) ==
    CASE self.kind = "Char" -> format_type_with_optional_length(<<"CHAR">>, self.size, c)
      [] self.kind = "Varchar" ->
            format_type_with_optional_length(<<"CHARACTER", " ", "VARYING">>, self.size, c)
      [] self.kind \in {"Clob", "Binary", "Varbinary", "Blob"} ->
            W(<<CASE self.kind = "Clob" -> "CLOB" [] self.kind = "Binary" -> "BINARY"
                  [] self.kind = "Varbinary" -> "VARBINARY" [] self.kind = "Blob" -> "BLOB",
                "(", ToString(self.size), ")">>, c)
      [] self.kind = "Decimal" -> DataType_Decimal(self, c)
      [] self.kind = "Float" -> format_type_with_optional_length(<<"FLOAT">>, self.size, c)
      [] self.kind = "Uuid" -> W(<<"UUID">>, c)
      [] self.kind = "SmallInt" -> W(<<"SMALLINT">>, c)
      [] self.kind = "Int" -> W(<<"INT">>, c)
      [] self.kind = "BigInt" -> W(<<"BIGINT">>, c)
      [] self.kind = "Real" -> W(<<"REAL">>, c)
      [] self.kind = "Double" -> W(<<"DOUBLE">>, c)
      [] self.kind = "Boolean" -> W(<<"BOOLEAN">>, c)
      [] self.kind = "Date" -> W(<<"DATE">>, c)
      [] self.kind = "Time" -> W(<<"TIME">>, c)
      [] self.kind = "Timestamp" -> W(<<"TIMESTAMP">>, c)
      [] self.kind = "Interval" -> W(<<"INTERVAL">>, c)
      [] self.kind = "Regclass" -> W(<<"REGCLASS">>, c)
      [] self.kind = "Text" -> W(<<"TEXT">>, c)
      [] self.kind = "String" -> W(<<"STRING">>, c)
      [] self.kind = "Bytea" -> W(<<"BYTEA">>, c)
      [] self.kind = "Array" -> Rewrite(self.inner, c) \o W(<<"[", "]">>, c)
      [] self.kind = "Custom" -> Rewrite(self.name, c)

(* -- literal values and queries (rewrite/value.rs, rewrite/query.rs) -- *)

\* value::escape_single_quote_string: every single quote is doubled
escape_single_quote_string(s) ==
    Flatten([i \in 1..Len(s) |-> IF s[i] = "'" THEN <<"'", "'">> ELSE <<s[i]>>])

\* the escaped string, written to the sink
EscapeSingleQuoteString_rewrite(s, c) == W(escape_single_quote_string(s), c)

\* Value: a number is written as it was read, a string between single quotes
Value_rewrite(self, c) ==
    CASE self.kind = "Number" -> W(self.text, c)
      [] self.kind = "SingleQuotedString" ->
            W(<<"'">>, c) \o EscapeSingleQuoteString_rewrite(self.s, c) \o W(<<"'">>, c)
      [] self.kind = "Null" -> W(<<"NULL">>, c)

\* DateTimeField: the keyword of the field
DateTimeField_rewrite(self, c) == W(<<self.kind>>, c)

(* -- expressions (rewrite/mod.rs) -- *)

RECURSIVE Expr_rewrite(_, _)
RECURSIVE Query_rewrite(_, _)
RECURSIVE OrderByExpr_rewrite(_, _)
RECURSIVE Function_rewrite(_, _)
RECURSIVE ListAgg_rewrite(_, _)

\* a bug: the typed-string value is written as it is
Expr_TypedString_unescaped(self, c) ==
    Rewrite(self.data_type, c)
      \o W(<<" ", "'">>, c) \o String_rewrite(self.value, c) \o W(<<"'">>, c)

Expr_TypedString(self, c) ==
    Rewrite(self.data_type, c)
      \o W(<<" ", "'">>, c)
      \o EscapeSingleQuoteString_rewrite(self.value, c)
      \o W(<<"'">>, c)

\* a bug: TRY_CAST is written like CAST
Expr_TryCast_written(self, c) ==
    W(<<"TRY_CAST", "(">>, c) \o Rewrite(self.expr, c) \o W(<<" ", "AS", " ">>, c)
      \o Rewrite(self.data_type, c) \o W(<<")">>, c)

\* Expr::TryCast { .. } => {}
Expr_TryCast(self, c) == <<>>

\* Expr::ParameterMark(_) => {}
Expr_ParameterMark(self, c) == <<>>

\* a variant that writes a WHEN for every condition, also one without a result
Expr_Case_unzipped(self, c) ==
    W(<<"CASE">>, c)
      \o (IF IsSome(self.operand)
          THEN W(<<" ">>, c) \o Rewrite(self.operand[1], c) ELSE <<>>)
      \o Flatten([i \in 1..Len(self.conditions) |->
             W(<<" ", "WHEN", " ">>, c) \o Rewrite(self.conditions[i], c)
               \o (IF i <= Len(self.results)
                   THEN W(<<" ", "THEN", " ">>, c) \o Rewrite(self.results[i], c)
                   ELSE <<>>)])
      \o (IF IsSome(self.else_result)
          THEN W(<<" ", "ELSE", " ">>, c) \o Rewrite(self.else_result[1], c)
          ELSE <<>>)
      \o W(<<" ", "END">>, c)

\* for (c, r) in conditions.iter().zip(results)
Expr_Case(self, c) ==
    LET n == IF Len(self.conditions) <= Len(self.results)
             THEN Len(self.conditions) ELSE Len(self.results)
    IN  W(<<"CASE">>, c)
          \o (IF IsSome(self.operand)
              THEN W(<<" ">>, c) \o Rewrite(self.operand[1], c) ELSE <<>>)
          \o Flatten([i \in 1..n |->
                 W(<<" ", "WHEN", " ">>, c) \o Rewrite(self.conditions[i], c)
                   \o W(<<" ", "THEN", " ">>, c) \o Rewrite(self.results[i], c)])
          \o (IF IsSome(self.else_result)
              THEN W(<<" ", "ELSE", " ">>, c) \o Rewrite(self.else_result[1], c)
              ELSE <<>>)
          \o W(<<" ", "END">>, c)

Expr_rewrite(self, c) ==
    CASE self.kind = "Identifier" -> Rewrite(self.ident, c)
      [] self.kind = "MapAccess" ->
            Rewrite(self.column, c) \o W(<<"[", "\"">> \o self.key \o <<"\"", "]">>, c)
      [] self.kind = "Wildcard" -> W(<<"*">>, c)
      [] self.kind = "QualifiedWildcard" ->
            display_separated(self.idents, <<".">>, c) \o W(<<".", "*">>, c)
      [] self.kind = "CompoundIdentifier" -> display_separated(self.idents, <<".">>, c)
      [] self.kind = "IsNull" ->
            Rewrite(self.expr, c) \o W(<<" ", "IS", " ", "NULL">>, c)
      [] self.kind = "IsNotNull" ->
            Rewrite(self.expr, c) \o W(<<" ", "IS", " ", "NOT", " ", "NULL">>, c)
      [] self.kind = "InList" ->
            Rewrite(self.expr, c)
              \o W(<<" ">> \o (IF self.negated THEN <<"NOT", " ">> ELSE <<>>)
                     \o <<"IN", " ", "(">>, c)
              \o display_comma_separated(self.list, c)
              \o W(<<")">>, c)
      [] self.kind = "InSubquery" ->
            Rewrite(self.expr, c)
              \o W(<<" ">> \o (IF self.negated THEN <<"NOT", " ">> ELSE <<>>)
                     \o <<"IN", " ", "(">>, c)
              \o Rewrite(self.subquery, c)
              \o W(<<")">>, c)
      [] self.kind = "Between" ->
            Rewrite(self.expr, c)
              \o W(<<" ">> \o (IF self.negated THEN <<"NOT", " ">> ELSE <<>>)
                     \o <<"BETWEEN", " ">>, c)
              \o Rewrite(self.low, c)
              \o W(<<" ", "AND", " ">>, c)
              \o Rewrite(self.high, c)
      [] self.kind = "BinaryOp" ->
            Rewrite(self.left, c) \o W(<<" ">>, c)
              \o Rewrite(self.op, c) \o W(<<" ">>, c)
              \o Rewrite(self.right, c)
      [] self.kind = "UnaryOp" ->
            IF self.op.kind = "PGPostfixFactorial"
            THEN Rewrite(self.expr, c) \o Rewrite(self.op, c)
            ELSE Rewrite(self.op, c) \o W(<<" ">>, c)
                   \o Rewrite(self.expr, c)
      [] self.kind = "Cast" ->
            W(<<"CAST", "(">>, c) \o Rewrite(self.expr, c)
              \o W(<<" ", "AS", " ">>, c) \o Rewrite(self.data_type, c)
              \o W(<<")">>, c)
      [] self.kind = "Extract" ->
            W(<<"EXTRACT", "(">>, c) \o Rewrite(self.field, c)
              \o W(<<" ", "FROM", " ">>, c) \o Rewrite(self.expr, c)
              \o W(<<")">>, c)
      [] self.kind = "Collate" ->
            Rewrite(self.expr, c) \o W(<<" ", "COLLATE", " ">>, c)
              \o Rewrite(self.collation, c)
      [] self.kind = "Nested" ->
            W(<<"(">>, c) \o Rewrite(self.expr, c) \o W(<<")">>, c)
      [] self.kind = "Value" -> Rewrite(self.value, c)
      [] self.kind = "TypedString" -> Expr_TypedString(self, c)
      [] self.kind = "Function" -> Rewrite(self.fun, c)
      [] self.kind = "Case" -> Expr_Case(self, c)
      [] self.kind = "Exists" ->
            W(<<"EXISTS", " ", "(">>, c) \o Rewrite(self.query, c) \o W(<<")">>, c)
      [] self.kind = "Subquery" ->
            W(<<"(">>, c) \o Rewrite(self.query, c) \o W(<<")">>, c)
      [] self.kind = "ListAgg" -> Rewrite(self.listagg, c)
      [] self.kind = "Substring" ->
            W(<<"SUBSTRING", "(">>, c) \o Rewrite(self.expr, c)
              \o (IF IsSome(self.substring_from)
                  THEN W(<<" ", "FROM", " ">>, c) \o Rewrite(self.substring_from[1], c)
                  ELSE <<>>)
              \o (IF IsSome(self.substring_for)
                  THEN W(<<" ", "FOR", " ">>, c) \o Rewrite(self.substring_for[1], c)
                  ELSE <<>>)
              \o W(<<")">>, c)
      [] self.kind = "TryCast" -> Expr_TryCast(self, c)
      [] self.kind = "ParameterMark" -> Expr_ParameterMark(self, c)

\* Query: SELECT projection FROM table [WHERE selection]
Query_rewrite(self, c) ==
    W(<<"SELECT", " ">>, c) \o display_comma_separated(self.projection, c)
      \o W(<<" ", "FROM", " ">>, c) \o Rewrite(self.from, c)
      \o (IF IsSome(self.selection)
          THEN W(<<" ", "WHERE", " ">>, c) \o Rewrite(self.selection[1], c)
          ELSE <<>>)

\* OrderByExpr: expr [ASC | DESC]
OrderByExpr_rewrite(self, c) ==
    Rewrite(self.expr, c)
      \o (IF IsSome(self.asc)
          THEN W(<<" ", IF self.asc[1] THEN "ASC" ELSE "DESC">>, c) ELSE <<>>)

WindowFrameUnits_rewrite(self, c) ==
    W(<<CASE self.kind = "Rows" -> "ROWS"
          [] self.kind = "Range" -> "RANGE"
          [] self.kind = "Groups" -> "GROUPS">>, c)

WindowFrameBound_rewrite(self, c) ==
    CASE self.kind = "CurrentRow" -> W(<<"CURRENT", " ", "ROW">>, c)
      [] self.kind = "Preceding" ->
            IF IsSome(self.n) THEN W(<<ToString(self.n[1]), " ", "PRECEDING">>, c)
            ELSE W(<<"UNBOUNDED", " ", "PRECEDING">>, c)
      [] self.kind = "Following" ->
            IF IsSome(self.n) THEN W(<<ToString(self.n[1]), " ", "FOLLOWING">>, c)
            ELSE W(<<"UNBOUNDED", " ", "FOLLOWING">>, c)

\* a variant whose delimiter is a space from the start
WindowSpec_rewrite_leading(self, c) ==
    (IF self.partition_by # <<>>
     THEN W(<<"PARTITION", " ", "BY", " ">>, c)
            \o display_comma_separated(self.partition_by, c)
     ELSE <<>>)
      \o (IF self.order_by # <<>>
          THEN W(<<" ">>, c) \o W(<<"ORDER", " ", "BY", " ">>, c)
                 \o display_comma_separated(self.order_by, c)
          ELSE <<>>)
      \o (IF IsSome(self.window_frame)
          THEN LET wf == self.window_frame[1] IN
               IF IsSome(wf.end_bound)
               THEN W(<<" ">>, c) \o Rewrite(wf.units, c)
                      \o W(<<" ", "BETWEEN", " ">>, c)
                      \o Rewrite(wf.start_bound, c)
                      \o W(<<" ", "AND", " ">>, c)
                      \o Rewrite(wf.end_bound[1], c)
               ELSE W(<<" ">>, c) \o Rewrite(wf.units, c)
                      \o W(<<" ">>, c)
                      \o Rewrite(wf.start_bound, c)
          ELSE <<>>)

WindowSpec_rewrite(self, c) ==
    LET delim1 == IF self.partition_by # <<>> THEN <<" ">> ELSE <<>>
        delim2 == IF self.order_by # <<>> THEN <<" ">> ELSE delim1
    IN  (IF self.partition_by # <<>>
         THEN W(<<"PARTITION", " ", "BY", " ">>, c)
                \o display_comma_separated(self.partition_by, c)
         ELSE <<>>)
          \o (IF self.order_by # <<>>
              THEN W(delim1, c) \o W(<<"ORDER", " ", "BY", " ">>, c)
                     \o display_comma_separated(self.order_by, c)
              ELSE <<>>)
          \o (IF IsSome(self.window_frame)
              THEN LET wf == self.window_frame[1] IN
                   IF IsSome(wf.end_bound)
                   THEN W(delim2, c) \o Rewrite(wf.units, c)
                          \o W(<<" ", "BETWEEN", " ">>, c)
                          \o Rewrite(wf.start_bound, c)
                          \o W(<<" ", "AND", " ">>, c)
                          \o Rewrite(wf.end_bound[1], c)
                   ELSE W(delim2, c) \o Rewrite(wf.units, c)
                          \o W(<<" ">>, c)
                          \o Rewrite(wf.start_bound, c)
              ELSE <<>>)

FunctionArg_rewrite(self, c) ==
    CASE self.kind = "Named" ->
            Rewrite(self.name, c) \o W(<<" ", "=", ">", " ">>, c)
              \o Rewrite(self.arg, c)
      [] self.kind = "Unnamed" -> Rewrite(self.arg, c)

Function_rewrite(self, c) ==
    Rewrite(self.name, c)
      \o W(<<"(">> \o (IF self.distinct THEN <<"DISTINCT", " ">> ELSE <<>>), c)
      \o display_comma_separated(self.args, c)
      \o W(<<")">>, c)
      \o (IF IsSome(self.over)
          THEN W(<<" ", "OVER", " ", "(">>, c) \o Rewrite(self.over[1], c)
                 \o W(<<")">>, c)
          ELSE <<>>)

ListAggOnOverflow_rewrite(self, c) ==
    W(<<" ", "ON", " ", "OVERFLOW">>, c)
      \o (CASE self.kind = "Error" -> W(<<" ", "ERROR">>, c)
            [] self.kind = "Truncate" ->
                  W(<<" ", "TRUNCATE">>, c)
                    \o (IF IsSome(self.filler)
                        THEN W(<<" ">>, c) \o Rewrite(self.filler[1], c) ELSE <<>>)
                    \o W(<<" ", IF self.with_count THEN "WITH" ELSE "WITHOUT">>, c)
                    \o W(<<" ", "COUNT">>, c))

ListAgg_rewrite(self, c) ==
    W(<<"LISTAGG", "(">> \o (IF self.distinct THEN <<"DISTINCT", " ">> ELSE <<>>), c)
      \o Rewrite(self.expr, c)
      \o (IF IsSome(self.separator)
          THEN W(<<",", " ">>, c) \o Rewrite(self.separator[1], c) ELSE <<>>)
      \o (IF IsSome(self.on_overflow)
          THEN Rewrite(self.on_overflow[1], c) ELSE <<>>)
      \o W(<<")">>, c)
      \o (IF self.within_group # <<>>
          THEN W(<<" ", "WITHIN", " ", "GROUP", " ", "(", "ORDER", " ", "BY", " ">>, c)
                 \o display_comma_separated(self.within_group, c)
                 \o W(<<")">>, c)
          ELSE <<>>)

FileFormat_rewrite(self, c) ==
    W(<<CASE self.kind = "TEXTFILE" -> "TEXTFILE"
          [] self.kind = "SEQUENCEFILE" -> "SEQUENCEFILE"
          [] self.kind = "ORC" -> "ORC"
          [] self.kind = "PARQUET" -> "PARQUET"
          [] self.kind = "AVRO" -> "AVRO"
          [] self.kind = "RCFILE" -> "RCFILE"
          [] self.kind = "JSONFILE" -> "TEXTFILE">>, c)

AddDropSync_rewrite(self, c) ==
    W(CASE self.kind = "SYNC" -> <<"SYNC", " ", "PARTITIONS">>
        [] self.kind = "DROP" -> <<"DROP", " ", "PARTITIONS">>
        [] self.kind = "ADD" -> <<"ADD", " ", "PARTITIONS">>, c)

ObjectType_rewrite(self, c) ==
    W(<<CASE self.kind = "Table" -> "TABLE"
          [] self.kind = "View" -> "VIEW"
          [] self.kind = "Index" -> "INDEX"
          [] self.kind = "Schema" -> "SCHEMA">>, c)

TransactionAccessMode_rewrite(self, c) ==
    W(CASE self.kind = "ReadOnly" -> <<"READ", " ", "ONLY">>
        [] self.kind = "ReadWrite" -> <<"READ", " ", "WRITE">>, c)

TransactionIsolationLevel_rewrite(self, c) ==
    W(CASE self.kind = "ReadUncommitted" -> <<"READ", " ", "UNCOMMITTED">>
        [] self.kind = "ReadCommitted" -> <<"READ", " ", "COMMITTED">>
        [] self.kind = "RepeatableRead" -> <<"REPEATABLE", " ", "READ">>
        [] self.kind = "Serializable" -> <<"SERIALIZABLE">>, c)

SqlOption_rewrite(self, c) ==
    Rewrite(self.name, c) \o W(<<" ", "=", " ">>, c) \o Rewrite(self.value, c)

\* match self { .. => write!(f, ..), .. }; Ok(()): the value of the match,
\* the Result of the write, is dropped
SqliteOnConflict_rewrite(self, c) ==
    W_unchecked(<<CASE self.kind = "Rollback" -> "ROLLBACK"
                    [] self.kind = "Abort" -> "ABORT"
                    [] self.kind = "Fail" -> "FAIL"
                    [] self.kind = "Ignore" -> "IGNORE"
                    [] self.kind = "Replace" -> "REPLACE">>, c)

\* a bug: the filter is written with its keyword
ShowStatementFilter_ILike_written(self, c) ==
    W(<<"ILIKE", " ", "'">>, c) \o EscapeSingleQuoteString_rewrite(self.pattern, c)
      \o W(<<"'">>, c)

\* ILike(_) => {}
ShowStatementFilter_ILike(self, c) == <<>>

ShowStatementFilter_rewrite(self, c) ==
    CASE self.kind = "Like" ->
            W(<<"LIKE", " ", "'">>, c) \o EscapeSingleQuoteString_rewrite(self.pattern, c)
              \o W(<<"'">>, c)
      [] self.kind = "Where" -> W(<<"WHERE", " ">>, c) \o Rewrite(self.expr, c)
      [] self.kind = "ILike" -> ShowStatementFilter_ILike(self, c)

(* -- tokens (rewrite/mod.rs) -- *)

matching_end_quote(ch) ==
    CASE ch = "\"" -> "\"" [] ch = "[" -> "]" [] ch = BQ -> BQ

Word_rewrite(self, c) ==
    IF self.quote_style = None THEN W(self.value, c)
    ELSE IF self.quote_style[1] \in {"\"", "[", BQ}
         THEN W(self.quote_style \o self.value
                  \o <<matching_end_quote(self.quote_style[1])>>, c)
         ELSE Panic(c)

Whitespace_rewrite(self, c) ==
    CASE self.kind = "Space" -> W(<<" ">>, c)
      [] self.kind = "Newline" -> W(<<"\n">>, c)
      [] self.kind = "Tab" -> W(<<"\t">>, c)
      [] self.kind = "SingleLineComment" -> W(self.prefix \o self.comment, c)
      [] self.kind = "MultiLineComment" -> W(<<"/", "*">> \o self.s \o <<"*", "/">>, c)

\* the tokens that are written as a fixed text
TokenText(kind) ==
    CASE kind = "EOF" -> <<"EOF">>
      [] kind = "Comma" -> <<",">>
      [] kind = "DoubleEq" -> <<"=", "=">>
      [] kind = "Spaceship" -> <<"<", "=", ">">>
      [] kind = "Eq" -> <<"=">>
      [] kind = "Neq" -> <<"<", ">">>
      [] kind = "Lt" -> <<"<">>
      [] kind = "Gt" -> <<">">>
      [] kind = "LtEq" -> <<"<", "=">>
      [] kind = "GtEq" -> <<">", "=">>
      [] kind = "Plus" -> <<"+">>
      [] kind = "Minus" -> <<"-">>
      [] kind = "Mult" -> <<"*">>
      [] kind = "Div" -> <<"/">>
      [] kind = "StringConcat" -> <<"|", "|">>
      [] kind = "Mod" -> <<"%">>
      [] kind = "LParen" -> <<"(">>
      [] kind = "RParen" -> <<")">>
      [] kind = "Period" -> <<".">>
      [] kind = "Colon" -> <<":">>
      [] kind = "DoubleColon" -> <<":", ":">>
      [] kind = "SemiColon" -> <<";">>
      [] kind = "Backslash" -> <<"\\">>
      [] kind = "LBracket" -> <<"[">>
      [] kind = "RBracket" -> <<"]">>
      [] kind = "Ampersand" -> <<"&">>
      [] kind = "Caret" -> <<"^">>
      [] kind = "Pipe" -> <<"|">>
      [] kind = "LBrace" -> <<"{">>
      [] kind = "RBrace" -> <<"}">>
      [] kind = "RArrow" -> <<"=", ">">>
      [] kind = "Sharp" -> <<"#">>
      [] kind = "ExclamationMark" -> <<"!">>
      [] kind = "DoubleExclamationMark" -> <<"!", "!">>
      [] kind = "Tilde" -> <<"~">>
      [] kind = "AtSign" -> <<"@">>
      [] kind = "ShiftLeft" -> <<"<", "<">>
      [] kind = "ShiftRight" -> <<">", ">">>
      [] kind = "PGSquareRoot" -> <<"|", "/">>
      [] kind = "PGCubeRoot" -> <<"|", "|", "/">>

\* a bug: the parameter mark is written
Token_ParameterMark_written(self, c) == W(<<"?">>, c)

\* Token::ParameterMark(_) => {}
Token_ParameterMark(self, c) == <<>>

Token_rewrite(self, c) ==
    CASE self.kind = "Word" -> Rewrite(self.word, c)
      [] self.kind = "Number" -> W(self.n \o (IF self.long THEN <<"L">> ELSE <<>>), c)
      [] self.kind = "Char" -> W(<<self.ch>>, c)
      [] self.kind = "SingleQuotedString" -> W(<<"'">> \o self.s \o <<"'">>, c)
      [] self.kind = "NationalStringLiteral" -> W(<<"N", "'">> \o self.s \o <<"'">>, c)
      [] self.kind = "HexStringLiteral" -> W(<<"X", "'">> \o self.s \o <<"'">>, c)
      [] self.kind = "Whitespace" -> Rewrite(self.ws, c)
      [] self.kind = "ParameterMark" -> Token_ParameterMark(self, c)
      [] OTHER -> W(TokenText(self.kind), c)

(* -- column definitions and constraints (rewrite/ddl.rs) -- *)

\* [ CONSTRAINT <name> ]
ConstraintName_rewrite(name, c) ==
    IF IsSome(name)
    THEN W(<<"CONSTRAINT", " ">>, c) \o Rewrite(name[1], c) \o W(<<" ">>, c)
    ELSE <<>>

ReferentialAction_rewrite(self, c) ==
    W(CASE self.kind = "Restrict" -> <<"RESTRICT">>
        [] self.kind = "Cascade" -> <<"CASCADE">>
        [] self.kind = "SetNull" -> <<"SET", " ", "NULL">>
        [] self.kind = "NoAction" -> <<"NO", " ", "ACTION">>
        [] self.kind = "SetDefault" -> <<"SET", " ", "DEFAULT">>, c)

ColumnOption_rewrite(self, c) ==
    CASE self.kind = "Null" -> W(<<"NULL">>, c)
      [] self.kind = "NotNull" -> W(<<"NOT", " ", "NULL">>, c)
      [] self.kind = "Default" -> W(<<"DEFAULT", " ">>, c) \o Rewrite(self.expr, c)
      [] self.kind = "Unique" ->
            W(IF self.is_primary THEN <<"PRIMARY", " ", "KEY">> ELSE <<"UNIQUE">>, c)
      [] self.kind = "ForeignKey" ->
            W(<<"REFERENCES", " ">>, c) \o Rewrite(self.foreign_table, c)
              \o (IF self.referred_columns # <<>>
                  THEN W(<<" ", "(">>, c) \o display_comma_separated(self.referred_columns, c)
                         \o W(<<")">>, c)
                  ELSE <<>>)
              \o (IF IsSome(self.on_delete)
                  THEN W(<<" ", "ON", " ", "DELETE", " ">>, c)
                         \o Rewrite(self.on_delete[1], c)
                  ELSE <<>>)
              \o (IF IsSome(self.on_update)
                  THEN W(<<" ", "ON", " ", "UPDATE", " ">>, c)
                         \o Rewrite(self.on_update[1], c)
                  ELSE <<>>)
      [] self.kind = "Check" ->
            W(<<"CHECK", " ", "(">>, c) \o Rewrite(self.expr, c) \o W(<<")">>, c)
      [] self.kind = "DialectSpecific" -> display_separated(self.tokens, <<" ">>, c)

ColumnOptionDef_rewrite(self, c) ==
    ConstraintName_rewrite(self.name, c) \o Rewrite(self.option, c)

ColumnDef_rewrite(self, c) ==
    Rewrite(self.name, c) \o W(<<" ">>, c) \o Rewrite(self.data_type, c)
      \o Flatten([i \in 1..Len(self.options) |->
                     W(<<" ">>, c) \o Rewrite(self.options[i], c)])

TableConstraint_rewrite(self, c) ==
    CASE self.kind = "Unique" ->
            ConstraintName_rewrite(self.name, c)
              \o W((IF self.is_primary THEN <<"PRIMARY", " ", "KEY">> ELSE <<"UNIQUE">>)
                     \o <<" ", "(">>, c)
              \o display_comma_separated(self.columns, c)
              \o W(<<")">>, c)
      [] self.kind = "ForeignKey" ->
            ConstraintName_rewrite(self.name, c)
              \o W(<<"FOREIGN", " ", "KEY", " ", "(">>, c)
              \o display_comma_separated(self.columns, c)
              \o W(<<")", " ", "REFERENCES", " ">>, c)
              \o Rewrite(self.foreign_table, c)
              \o W(<<"(">>, c)
              \o display_comma_separated(self.referred_columns, c)
              \o W(<<")">>, c)
      [] self.kind = "Check" ->
            ConstraintName_rewrite(self.name, c)
              \o W(<<"CHECK", " ", "(">>, c) \o Rewrite(self.expr, c) \o W(<<")">>, c)

(* -- statements (rewrite/mod.rs) -- *)

\* a bug: the clause is written whenever the list is present
Statement_Truncate_noempty(self, c) ==
    W(<<"TRUNCATE", " ", "TABLE", " ">>, c) \o Rewrite(self.table_name, c)
      \o (IF IsSome(self.partitions)
          THEN W(<<" ", "PARTITION", " ", "(">>, c)
                 \o display_comma_separated(self.partitions[1], c) \o W(<<")">>, c)
          ELSE <<>>)

Statement_Truncate(self, c) ==
    W(<<"TRUNCATE", " ", "TABLE", " ">>, c) \o Rewrite(self.table_name, c)
      \o (IF IsSome(self.partitions) /\ self.partitions[1] # <<>>
          THEN W(<<" ", "PARTITION", " ", "(">>, c)
                 \o display_comma_separated(self.partitions[1], c) \o W(<<")">>, c)
          ELSE <<>>)

Statement_Analyze(self, c) ==
    W(<<"ANALYZE", " ", "TABLE", " ">>, c) \o Rewrite(self.table_name, c)
      \o (IF IsSome(self.partitions) /\ self.partitions[1] # <<>>
          THEN W(<<" ", "PARTITION", " ", "(">>, c)
                 \o display_comma_separated(self.partitions[1], c) \o W(<<")">>, c)
          ELSE <<>>)
      \o (IF self.compute_statistics THEN W(<<" ", "COMPUTE", " ", "STATISTICS">>, c)
          ELSE <<>>)
      \o (IF self.noscan THEN W(<<" ", "NOSCAN">>, c) ELSE <<>>)
      \o (IF self.cache_metadata THEN W(<<" ", "CACHE", " ", "METADATA">>, c) ELSE <<>>)
      \o (IF self.for_columns
          THEN W(<<" ", "FOR", " ", "COLUMNS">>, c)
                 \o (IF self.columns # <<>>
                     THEN W(<<" ">>, c) \o display_comma_separated(self.columns, c)
                     ELSE <<>>)
          ELSE <<>>)

Statement_Insert(self, c) ==
    (IF IsSome(self.or)
     THEN W(<<"INSERT", " ", "OR", " ">>, c) \o Rewrite(self.or[1], c)
            \o W(<<" ", "INTO", " ">>, c) \o Rewrite(self.table_name, c)
            \o W(<<" ">>, c)
     ELSE W(<<"INSERT", " ", IF self.overwrite THEN "OVERWRITE" ELSE "INTO">>
              \o (IF self.table THEN <<" ", "TABLE">> ELSE <<>>) \o <<" ">>, c)
            \o Rewrite(self.table_name, c) \o W(<<" ">>, c))
      \o (IF self.columns # <<>>
          THEN W(<<"(">>, c) \o display_comma_separated(self.columns, c)
                 \o W(<<")", " ">>, c)
          ELSE <<>>)
      \o (IF IsSome(self.partitioned) /\ self.partitioned[1] # <<>>
          THEN W(<<"PARTITION", " ", "(">>, c)
                 \o display_comma_separated(self.partitioned[1], c) \o W(<<")", " ">>, c)
          ELSE <<>>)
      \o (IF self.after_columns # <<>>
          THEN W(<<"(">>, c) \o display_comma_separated(self.after_columns, c)
                 \o W(<<")", " ">>, c)
          ELSE <<>>)
      \o Rewrite(self.source, c)

Statement_CreateDatabase(self, c) ==
    W(<<"CREATE">>, c)
      \o (IF self.if_not_exists THEN W(<<" ", "IF", " ", "NOT", " ", "EXISTS">>, c)
          ELSE <<>>)
      \o W(<<" ">>, c) \o Rewrite(self.db_name, c)
      \o (IF IsSome(self.location)
          THEN W(<<" ", "LOCATION", " ", "'">> \o self.location[1] \o <<"'">>, c)
          ELSE <<>>)
      \o (IF IsSome(self.managed_location)
          THEN W(<<" ", "MANAGEDLOCATION", " ", "'">> \o self.managed_location[1]
                   \o <<"'">>, c)
          ELSE <<>>)

Statement_ShowColumns(self, c) ==
    W(<<"SHOW", " ">> \o (IF self.extended THEN <<"EXTENDED", " ">> ELSE <<>>)
        \o (IF self.full THEN <<"FULL", " ">> ELSE <<>>)
        \o <<"COLUMNS", " ", "FROM", " ">>, c)
      \o Rewrite(self.table_name, c)
      \o (IF IsSome(self.filter)
          THEN W(<<" ">>, c) \o Rewrite(self.filter[1], c)
          ELSE <<>>)

\* write!(f, "SHOW ") and then, before a non-empty list, write!(f, " ")
Statement_ShowVariable(self, c) ==
    W(<<"SHOW", " ">>, c)
      \o (IF self.variable # <<>>
          THEN W(<<" ">>, c) \o display_separated(self.variable, <<" ">>, c)
          ELSE <<>>)

\* a bug: the space after NAMES is missing
Statement_SetNames_nospace(self, c) ==
    W(<<"SET", " ", "NAMES">>, c) \o Rewrite(self.variable, c)

Statement_SetNames(self, c) ==
    W(<<"SET", " ", "NAMES", " ">>, c) \o Rewrite(self.variable, c)

\* the columns are joined by "," with no space
Statement_CreateIndex(self, c) ==
    W(<<"CREATE", " ">> \o (IF self.unique THEN <<"UNIQUE", " ">> ELSE <<>>)
        \o <<"INDEX", " ">>
        \o (IF self.if_not_exists THEN <<"IF", " ", "NOT", " ", "EXISTS", " ">> ELSE <<>>), c)
      \o Rewrite(self.name, c)
      \o W(<<" ", "ON", " ">>, c)
      \o Rewrite(self.table_name, c)
      \o W(<<"(">>, c)
      \o display_separated(self.columns, <<",">>, c)
      \o W(<<")">>, c)

(* Statement::CreateTable, clause by clause *)

CreateTable_flags(self, c) ==
    W(<<"CREATE", " ">> \o (IF self.or_replace THEN <<"OR", " ", "REPLACE", " ">> ELSE <<>>)
        \o (IF self.external THEN <<"EXTERNAL", " ">> ELSE <<>>)
        \o <<"TABLE", " ">>
        \o (IF self.if_not_exists THEN <<"IF", " ", "NOT", " ", "EXISTS", " ">> ELSE <<>>), c)

\* a bug: the empty parentheses are written before an AS-query too
CreateTable_columns_always(self, c) ==
    IF self.columns # <<>> \/ self.constraints # <<>>
    THEN W(<<" ", "(">>, c) \o display_comma_separated(self.columns, c)
           \o (IF self.columns # <<>> /\ self.constraints # <<>>
               THEN W(<<",", " ">>, c) ELSE <<>>)
           \o display_comma_separated(self.constraints, c)
           \o W(<<")">>, c)
    ELSE W(<<" ", "(", ")">>, c)

CreateTable_columns(self, c) ==
    IF self.columns # <<>> \/ self.constraints # <<>>
    THEN W(<<" ", "(">>, c) \o display_comma_separated(self.columns, c)
           \o (IF self.columns # <<>> /\ self.constraints # <<>>
               THEN W(<<",", " ">>, c) ELSE <<>>)
           \o display_comma_separated(self.constraints, c)
           \o W(<<")">>, c)
    ELSE IF self.query = None THEN W(<<" ", "(", ")">>, c)
    ELSE <<>>

CreateTable_without_rowid(self, c) ==
    IF self.without_rowid THEN W(<<" ", "WITHOUT", " ", "ROWID">>, c) ELSE <<>>

CreateTable_like(self, c) ==
    IF IsSome(self.like)
    THEN W(<<" ", "LIKE", " ">>, c) \o Rewrite(self.like[1], c) ELSE <<>>

CreateTable_hive_distribution(self, c) ==
    LET hd == self.hive_distribution IN
    CASE hd.kind = "PARTITIONED" ->
            W(<<" ", "PARTITIONED", " ", "BY", " ", "(">>, c)
              \o display_comma_separated(hd.columns, c) \o W(<<")">>, c)
      [] hd.kind = "CLUSTERED" ->
            W(<<" ", "CLUSTERED", " ", "BY", " ", "(">>, c)
              \o display_comma_separated(hd.columns, c) \o W(<<")">>, c)
              \o (IF hd.sorted_by # <<>>
                  THEN W(<<" ", "SORTED", " ", "BY", " ", "(">>, c)
                         \o display_comma_separated(hd.sorted_by, c) \o W(<<")">>, c)
                  ELSE <<>>)
              \o (IF hd.num_buckets > 0
                  THEN W(<<" ", "INTO", " ", ToString(hd.num_buckets), " ", "BUCKETS">>, c)
                  ELSE <<>>)
      [] hd.kind = "SKEWED" ->
            W(<<" ", "SKEWED", " ", "BY", " ", "(">>, c)
              \o display_comma_separated(hd.columns, c)
              \o W(<<")", ")", " ", "ON", " ", "(">>, c)
              \o display_comma_separated(hd.on, c)
              \o W(<<")">>, c)
              \o (IF hd.stored_as_directories
                  THEN W(<<" ", "STORED", " ", "AS", " ", "DIRECTORIES">>, c) ELSE <<>>)
      [] OTHER -> <<>>

CreateTable_hive_row_format(self, c) ==
    IF IsSome(self.hive_formats) /\ IsSome(self.hive_formats[1].row_format)
    THEN LET rf == self.hive_formats[1].row_format[1] IN
         IF rf.kind = "SERDE"
         THEN W(<<" ", "ROW", " ", "FORMAT", " ", "SERDE", " ", "'">> \o rf.class
                  \o <<"'">>, c)
         ELSE W(<<" ", "ROW", " ", "FORMAT", " ", "DELIMITED">>, c)
    ELSE <<>>

CreateTable_hive_storage(self, c) ==
    IF IsSome(self.hive_formats) /\ IsSome(self.hive_formats[1].storage)
    THEN LET st == self.hive_formats[1].storage[1] IN
         IF st.kind = "IOF"
         THEN W(<<" ", "STORED", " ", "AS", " ", "INPUTFORMAT", " ">>, c)
                \o Rewrite(st.input_format, c)
                \o W(<<" ", "OUTPUTFORMAT", " ">>, c)
                \o Rewrite(st.output_format, c)
         ELSE IF ~self.external
         THEN W(<<" ", "STORED", " ", "AS", " ">>, c) \o Rewrite(st.format, c)
         ELSE <<>>
    ELSE <<>>

\* a bug: the Hive LOCATION is written for an external table too
CreateTable_hive_location_always(self, c) ==
    IF IsSome(self.hive_formats) /\ IsSome(self.hive_formats[1].location)
    THEN W(<<" ", "LOCATION", " ", "'">> \o self.hive_formats[1].location[1] \o <<"'">>, c)
    ELSE <<>>

CreateTable_hive_location(self, c) ==
    IF IsSome(self.hive_formats) /\ ~self.external /\ IsSome(self.hive_formats[1].location)
    THEN W(<<" ", "LOCATION", " ", "'">> \o self.hive_formats[1].location[1] \o <<"'">>, c)
    ELSE <<>>

CreateTable_external(self, c) ==
    IF self.external
    THEN W(<<" ", "STORED", " ", "AS", " ">>, c)
           \o (IF IsSome(self.file_format) THEN Rewrite(self.file_format[1], c)
               ELSE Panic(c))
           \o W(<<" ", "LOCATION", " ", "'">>, c)
           \o (IF IsSome(self.location) THEN String_rewrite(self.location[1], c)
               ELSE Panic(c))
           \o W(<<"'">>, c)
    ELSE <<>>

CreateTable_table_properties(self, c) ==
    IF self.table_properties # <<>>
    THEN W(<<" ", "TBLPROPERTIES", " ", "(">>, c)
           \o display_comma_separated(self.table_properties, c) \o W(<<")">>, c)
    ELSE <<>>

CreateTable_with_options(self, c) ==
    IF self.with_options # <<>>
    THEN W(<<" ", "WITH", " ", "(">>, c)
           \o display_comma_separated(self.with_options, c) \o W(<<")">>, c)
    ELSE <<>>

CreateTable_query(self, c) ==
    IF IsSome(self.query)
    THEN W(<<" ", "AS", " ">>, c) \o Rewrite(self.query[1], c) ELSE <<>>

\* a bug: WITH options are written before TBLPROPERTIES
CreateTable_clauses_swapped(self, c) ==
    << [cl |-> "flags", ev |-> CreateTable_flags(self, c)],
       [cl |-> "name", ev |-> Rewrite(self.name, c)],
       [cl |-> "columns", ev |-> CreateTable_columns(self, c)],
       [cl |-> "without_rowid", ev |-> CreateTable_without_rowid(self, c)],
       [cl |-> "like", ev |-> CreateTable_like(self, c)],
       [cl |-> "hive_distribution", ev |-> CreateTable_hive_distribution(self, c)],
       [cl |-> "hive_row_format", ev |-> CreateTable_hive_row_format(self, c)],
       [cl |-> "hive_storage", ev |-> CreateTable_hive_storage(self, c)],
       [cl |-> "hive_location", ev |-> CreateTable_hive_location(self, c)],
       [cl |-> "external", ev |-> CreateTable_external(self, c)],
       [cl |-> "with_options", ev |-> CreateTable_with_options(self, c)],
       [cl |-> "table_properties", ev |-> CreateTable_table_properties(self, c)],
       [cl |-> "query", ev |-> CreateTable_query(self, c)] >>

\* the blocks of the CreateTable arm in the order the code runs them, each
\* with the events it performs
CreateTable_clauses(self, c) ==
    << [cl |-> "flags", ev |-> CreateTable_flags(self, c)],
       [cl |-> "name", ev |-> Rewrite(self.name, c)],
       [cl |-> "columns", ev |-> CreateTable_columns(self, c)],
       [cl |-> "without_rowid", ev |-> CreateTable_without_rowid(self, c)],
       [cl |-> "like", ev |-> CreateTable_like(self, c)],
       [cl |-> "hive_distribution", ev |-> CreateTable_hive_distribution(self, c)],
       [cl |-> "hive_row_format", ev |-> CreateTable_hive_row_format(self, c)],
       [cl |-> "hive_storage", ev |-> CreateTable_hive_storage(self, c)],
       [cl |-> "hive_location", ev |-> CreateTable_hive_location(self, c)],
       [cl |-> "external", ev |-> CreateTable_external(self, c)],
       [cl |-> "table_properties", ev |-> CreateTable_table_properties(self, c)],
       [cl |-> "with_options", ev |-> CreateTable_with_options(self, c)],
       [cl |-> "query", ev |-> CreateTable_query(self, c)] >>

Statement_CreateTable(self, c) ==
    LET cls == CreateTable_clauses(self, c)
    IN  Flatten([i \in 1..Len(cls) |-> cls[i].ev])

Statement_CreateSchema(self, c) ==
    W(<<"CREATE", " ", "SCHEMA", " ">>
        \o (IF self.if_not_exists THEN <<"IF", " ", "NOT", " ", "EXISTS", " ">> ELSE <<>>), c)
      \o Rewrite(self.schema_name, c)

\* the parameter list is closed with write!(f, "()")
Statement_Execute(self, c) ==
    W(<<"EXECUTE", " ">>, c) \o Rewrite(self.name, c)
      \o (IF self.parameters # <<>>
          THEN W(<<"(">>, c) \o display_comma_separated(self.parameters, c)
                 \o W(<<"(", ")">>, c)
          ELSE <<>>)

Statement_rewrite(self, c) ==
    CASE self.kind = "Truncate" -> Statement_Truncate(self, c)
      [] self.kind = "Analyze" -> Statement_Analyze(self, c)
      [] self.kind = "Insert" -> Statement_Insert(self, c)
      [] self.kind = "CreateDatabase" -> Statement_CreateDatabase(self, c)
      [] self.kind = "CreateTable" -> Statement_CreateTable(self, c)
      [] self.kind = "ShowColumns" -> Statement_ShowColumns(self, c)
      [] self.kind = "ShowVariable" -> Statement_ShowVariable(self, c)
      [] self.kind = "SetNames" -> Statement_SetNames(self, c)
      [] self.kind = "CreateIndex" -> Statement_CreateIndex(self, c)
      [] self.kind = "CreateSchema" -> Statement_CreateSchema(self, c)
      [] self.kind = "Execute" -> Statement_Execute(self, c)

\* t.rewrite(f, ctx): the SQLReWrite implementation of the type of t
Rewrite(t, c) ==
    CASE t.ty = "Ident" -> Ident_rewrite(t, c)
      [] t.ty = "ObjectName" -> ObjectName_rewrite(t, c)
      [] t.ty = "DisplaySeparated" -> DisplaySeparated(t.slice, t.sep, c)
      [] t.ty = "Expr" -> Expr_rewrite(t, c)
      [] t.ty = "DataType" -> DataType_rewrite(t, c)
      [] t.ty = "Value" -> Value_rewrite(t, c)
      [] t.ty = "Query" -> Query_rewrite(t, c)
      [] t.ty = "OrderByExpr" -> OrderByExpr_rewrite(t, c)
      [] t.ty = "FunctionArg" -> FunctionArg_rewrite(t, c)
      [] t.ty = "Function" -> Function_rewrite(t, c)
      [] t.ty = "WindowSpec" -> WindowSpec_rewrite(t, c)
      [] t.ty = "SqlOption" -> SqlOption_rewrite(t, c)
      [] t.ty = "FileFormat" -> FileFormat_rewrite(t, c)
      [] t.ty = "SqliteOnConflict" -> SqliteOnConflict_rewrite(t, c)
      [] t.ty = "ShowStatementFilter" -> ShowStatementFilter_rewrite(t, c)
      [] t.ty = "Token" -> Token_rewrite(t, c)
      [] t.ty = "Word" -> Word_rewrite(t, c)
      [] t.ty = "ColumnDef" -> ColumnDef_rewrite(t, c)
      [] t.ty = "ColumnOptionDef" -> ColumnOptionDef_rewrite(t, c)
      [] t.ty = "TableConstraint" -> TableConstraint_rewrite(t, c)
      [] t.ty = "Statement" -> Statement_rewrite(t, c)
      [] t.ty = "Whitespace" -> Whitespace_rewrite(t, c)
      [] t.ty = "UnaryOperator" -> UnaryOperator_rewrite(t, c)
      [] t.ty = "BinaryOperator" -> BinaryOperator_rewrite(t, c)
      [] t.ty = "DateTimeField" -> DateTimeField_rewrite(t, c)
      [] t.ty = "WindowFrameUnits" -> WindowFrameUnits_rewrite(t, c)
      [] t.ty = "WindowFrameBound" -> WindowFrameBound_rewrite(t, c)
      [] t.ty = "ListAgg" -> ListAgg_rewrite(t, c)
      [] t.ty = "ListAggOnOverflow" -> ListAggOnOverflow_rewrite(t, c)
      [] t.ty = "ReferentialAction" -> ReferentialAction_rewrite(t, c)
      [] t.ty = "ColumnOption" -> ColumnOption_rewrite(t, c)
      [] t.ty = "AddDropSync" -> AddDropSync_rewrite(t, c)
      [] t.ty = "ObjectType" -> ObjectType_rewrite(t, c)
      [] t.ty = "TransactionAccessMode" -> TransactionAccessMode_rewrite(t, c)
      [] t.ty = "TransactionIsolationLevel" -> TransactionIsolationLevel_rewrite(t, c)

-----------------------------------------------------------------------------
(* The Analysis Pass (analyse/ddl.rs).  `x.analyse(ctx)` is modelled by an *)
(* operator X_analyse(x, m) that yields the calls made into the            *)
(* accumulator, in program order: "visit" for a recorded node, "err" for   *)
(* the call on which the accumulator signals failure.  m is the node the   *)
(* stub accumulator fails on (None: it never fails).                       *)

\* the accumulator is called with node n
Visit(n, m) == << [k |-> IF m = Some(n) THEN "err" ELSE "visit", n |-> n] >>

\* an analyse call on n whose body does not touch the accumulator
Step(n) == << [k |-> "call", n |-> n] >>

IsVisit(e) == e.k = "visit"

\* the nodes handed to the accumulator in a sequence of events
Nodes(ev) == LET vs == SelectSeq(ev, IsVisit) IN [i \in 1..Len(vs) |-> vs[i].n]

\* the nodes of all the analyse calls of a sequence of events, in order
Steps(ev) == [i \in 1..Len(ev) |-> ev[i].n]

RECURSIVE Analyse(_, _)

\* Ident, ObjectName, DataType, Expr and Token hand themselves to the accumulator
Leaf_analyse(self, m) == Visit(self, m)

\* DisplaySeparated: for t in self.slice { t.analyse(ctx)?; }
analyse_display_separated(slice, m) ==
    Flatten([i \in 1..Len(slice) |-> Analyse(slice[i], m)])

analyse_display_comma_separated(slice, m) == analyse_display_separated(slice, m)

ConstraintName(name) == [ty |-> "ConstraintName", name |-> name]

\* a variant that hands a name that is present to the accumulator
display_constraint_name_analysing(name, m) ==
    IF IsSome(name) THEN Analyse(name[1], m) ELSE Step(ConstraintName(name))

\* ConstraintName: the body is commented out, nothing is analysed
display_constraint_name(name, m) == Step(ConstraintName(name))

\* ReferentialAction: the body is commented out, nothing is analysed
ReferentialAction_analyse(self, m) == Step(self)

\* a variant that analyses the referred columns before the foreign table
ColumnOption_ForeignKey_analyse_reordered(self, m) ==
    (IF self.referred_columns # <<>>
     THEN analyse_display_comma_separated(self.referred_columns, m)
     ELSE <<>>)
      \o Analyse(self.foreign_table, m)
      \o (IF IsSome(self.on_delete)
          THEN ReferentialAction_analyse(self.on_delete[1], m) ELSE <<>>)
      \o (IF IsSome(self.on_update)
          THEN ReferentialAction_analyse(self.on_update[1], m) ELSE <<>>)

\* ColumnOption::ForeignKey { foreign_table, referred_columns, on_delete, on_update }
ColumnOption_ForeignKey_analyse(self, m) ==
    Analyse(self.foreign_table, m)
      \o (IF self.referred_columns # <<>>
          THEN analyse_display_comma_separated(self.referred_columns, m)
          ELSE <<>>)
      \o (IF IsSome(self.on_delete)
          THEN ReferentialAction_analyse(self.on_delete[1], m) ELSE <<>>)
      \o (IF IsSome(self.on_update)
          THEN ReferentialAction_analyse(self.on_update[1], m) ELSE <<>>)

ColumnOption_analyse(self, m) ==
    CASE self.kind \in {"Null", "NotNull", "Unique"} -> Step(self)
      [] self.kind = "Default" -> Analyse(self.expr, m)
      [] self.kind = "ForeignKey" -> ColumnOption_ForeignKey_analyse(self, m)
      [] self.kind = "Check" -> Analyse(self.expr, m)
      [] self.kind = "DialectSpecific" -> analyse_display_separated(self.tokens, m)

ColumnOptionDef_analyse(self, m) ==
    display_constraint_name(self.name, m) \o ColumnOption_analyse(self.option, m)

\* a bug: a failure of the data type is dropped (let _ = ...analyse(ctx);)
ColumnDef_analyse_lenient(self, m) ==
    Analyse(self.name, m) \o Cut(Analyse(self.data_type, m))
      \o Flatten([i \in 1..Len(self.options) |-> ColumnOptionDef_analyse(self.options[i], m)])

ColumnDef_analyse(self, m) ==
    Analyse(self.name, m) \o Analyse(self.data_type, m)
      \o Flatten([i \in 1..Len(self.options) |-> ColumnOptionDef_analyse(self.options[i], m)])

TableConstraint_analyse(self, m) ==
    CASE self.kind = "Unique" ->
            display_constraint_name(self.name, m)
              \o analyse_display_comma_separated(self.columns, m)
      [] self.kind = "ForeignKey" ->
            display_constraint_name(self.name, m)
              \o analyse_display_comma_separated(self.columns, m)
              \o Analyse(self.foreign_table, m)
              \o analyse_display_comma_separated(self.referred_columns, m)
      [] self.kind = "Check" ->
            display_constraint_name(self.name, m) \o Analyse(self.expr, m)

AlterTableOperation_analyse(self, m) ==
    CASE self.kind = "AddPartitions" ->
            analyse_display_comma_separated(self.new_partitions, m)
      [] self.kind = "AddConstraint" -> TableConstraint_analyse(self.c, m)
      [] self.kind = "AddColumn" -> ColumnDef_analyse(self.column_def, m)
      [] self.kind = "DropPartitions" ->
            analyse_display_comma_separated(self.partitions, m)
      [] self.kind = "DropConstraint" -> Analyse(self.name, m)
      [] self.kind = "DropColumn" -> Analyse(self.column_name, m)
      [] self.kind = "RenamePartitions" ->
            analyse_display_comma_separated(self.old_partitions, m)
              \o analyse_display_comma_separated(self.new_partitions, m)
      [] self.kind = "RenameColumn" ->
            Analyse(self.old_column_name, m) \o Analyse(self.new_column_name, m)
      [] self.kind = "RenameTable" -> Analyse(self.table_name, m)

\* t.analyse(ctx): the SQLAnalyse implementation of the type of t
Analyse(t, m) ==
    CASE t.ty \in {"Ident", "ObjectName", "DataType", "Expr", "Token"} -> Leaf_analyse(t, m)
      [] t.ty = "ColumnOption" -> ColumnOption_analyse(t, m)
      [] t.ty = "ColumnOptionDef" -> ColumnOptionDef_analyse(t, m)
      [] t.ty = "ColumnDef" -> ColumnDef_analyse(t, m)
      [] t.ty = "TableConstraint" -> TableConstraint_analyse(t, m)
      [] t.ty = "AlterTableOperation" -> AlterTableOperation_analyse(t, m)

-----------------------------------------------------------------------------
(* Inputs.                                                                 *)

EmptyCtx == <<>>
Contexts == {EmptyCtx, (<<"a">> :> <<"z">>), (<<"a">> :> <<"z">>) @@ (<<"t">> :> <<"u">>)}

ExprContexts == {EmptyCtx, (<<"a">> :> <<"z">>)}

Sinks == {<<>>, <<"x", " ">>}

QuoteStyles == {None, Some("\""), Some("'"), Some(BQ), Some("["), Some("#")}
IdentValues == {<<"a">>, <<"b">>, <<"t">>, <<"a", " ", "b">>}
Idents == {Ident(v, q) : v \in IdentValues, q \in QuoteStyles}

\* a few identifiers to build larger nodes from
SomeIdents == {Ident(<<"a">>, None), Ident(<<"b">>, Some(BQ)), Ident(<<"t">>, Some("["))}

Separators == {<<",", " ">>, <<".">>, <<" ">>, <<",">>}
SeparatedLists ==
    {DisplaySeparatedOf(s, sep) : s \in SeqsUpTo(SomeIdents, MaxList), sep \in Separators}
      \cup {DisplaySeparatedOf(<<Ident(<<"a">>, None), Ident(<<"b">>, Some("#"))>>, <<".">>)}

ObjectNames == {ObjectName(s) : s \in SeqsUpTo(SomeIdents, MaxList) \ {<<>>}}

A == Ident(<<"a">>, None)
T == ObjectName(<<Ident(<<"t">>, None)>>)
One == ExprValue(Number(<<"1">>))

StrValues == {<<"x">>, <<"x", "'", "y">>, <<"'">>, <<>>}

DataTypes ==
    {DataType(k) : k \in {"Int", "Date", "Text", "Uuid", "Boolean"}}
      \cup {[ty |-> "DataType", kind |-> k, size |-> z] :
               k \in {"Char", "Varchar", "Float"}, z \in {None, Some(10)}}
      \cup {[ty |-> "DataType", kind |-> k, size |-> 5] :
               k \in {"Clob", "Binary", "Varbinary", "Blob"}}
      \cup {[ty |-> "DataType", kind |-> "Decimal", precision |-> p, scale |-> z] :
               p \in {None, Some(10)}, z \in {None, Some(2)}}
      \cup {[ty |-> "DataType", kind |-> "Array", inner |-> DataType("Int")],
            [ty |-> "DataType", kind |-> "Custom", name |-> T]}

\* expressions that hold no expression of the sets below
LeafExprs ==
    {ExprId(A), ExprId(Ident(<<"b">>, Some(BQ))), One, [ty |-> "Expr", kind |-> "Wildcard"],
     [ty |-> "Expr", kind |-> "ParameterMark", mark |-> "?"],
     [ty |-> "Expr", kind |-> "TypedString", data_type |-> DataType("Date"),
      value |-> <<"x", "'", "y">>]}

\* further expressions, rendered on their own only
FlatExprs ==
    {ExprValue([ty |-> "Value", kind |-> "SingleQuotedString", s |-> <<"x", "'", "y">>]),
     ExprValue([ty |-> "Value", kind |-> "Null"]),
     [ty |-> "Expr", kind |-> "QualifiedWildcard", idents |-> <<A, Ident(<<"t">>, Some("["))>>],
     [ty |-> "Expr", kind |-> "CompoundIdentifier", idents |-> <<Ident(<<"t">>, None), A>>]}
      \cup {[ty |-> "Expr", kind |-> "TypedString", data_type |-> d, value |-> v] :
               d \in {DataType("Date"), [ty |-> "DataType", kind |-> "Char", size |-> Some(10)]},
               v \in StrValues}

OrderBys(E) == {[ty |-> "OrderByExpr", expr |-> e, asc |-> a] : e \in E, a \in Opt(BOOLEAN)}

WindowFrameBounds ==
    {[ty |-> "WindowFrameBound", kind |-> "CurrentRow"]}
      \cup {[ty |-> "WindowFrameBound", kind |-> k, n |-> n] :
               k \in {"Preceding", "Following"}, n \in {None, Some(5)}}

WindowFrames ==
    {[units |-> [ty |-> "WindowFrameUnits", kind |-> u], start_bound |-> b, end_bound |-> e] :
        u \in {"Rows", "Range", "Groups"}, b \in WindowFrameBounds,
        e \in {None, Some([ty |-> "WindowFrameBound", kind |-> "CurrentRow"]),
               Some([ty |-> "WindowFrameBound", kind |-> "Following", n |-> None])}}

WindowSpecs ==
    {[ty |-> "WindowSpec", partition_by |-> p, order_by |-> o, window_frame |-> w] :
        p \in SeqsUpTo({ExprId(A), One}, MaxList),
        o \in SeqsUpTo(OrderBys({ExprId(A)}), 1),
        w \in Opt(WindowFrames)}

SomeWindowSpec ==
    [ty |-> "WindowSpec", partition_by |-> <<ExprId(A)>>,
     order_by |-> <<[ty |-> "OrderByExpr", expr |-> One, asc |-> Some(FALSE)]>>,
     window_frame |-> None]

\* the expressions that hold an expression of E directly
Wrap(E) ==
    {[ty |-> "Expr", kind |-> k, expr |-> e] : k \in {"IsNull", "IsNotNull", "Nested"}, e \in E}
      \cup {[ty |-> "Expr", kind |-> "UnaryOp", op |-> [ty |-> "UnaryOperator", kind |-> o],
             expr |-> e] : o \in {"Not", "PGPostfixFactorial"}, e \in E}
      \cup {[ty |-> "Expr", kind |-> k, expr |-> e, data_type |-> DataType("Int")] :
               k \in {"Cast", "TryCast"}, e \in E}
      \cup {[ty |-> "Expr", kind |-> "Extract",
             field |-> [ty |-> "DateTimeField", kind |-> "YEAR"], expr |-> e] : e \in E}
      \cup {[ty |-> "Expr", kind |-> "Collate", expr |-> e, collation |-> T] : e \in E}
      \cup {[ty |-> "Expr", kind |-> "MapAccess", column |-> e, key |-> <<"k">>] : e \in E}
      \cup {[ty |-> "Expr", kind |-> "Substring", expr |-> e, substring_from |-> x,
             substring_for |-> y] : e \in E, x \in Opt({One}), y \in {None}}
      \cup {[ty |-> "Expr", kind |-> "Substring", expr |-> One, substring_from |-> None,
             substring_for |-> Some(e)] : e \in E}
      \cup {[ty |-> "Expr", kind |-> "InList", expr |-> e, list |-> l, negated |-> FALSE] :
               e \in E, l \in SeqsUpTo({One}, MaxList)}
      \cup {[ty |-> "Expr", kind |-> "InList", expr |-> One, list |-> <<e>>, negated |-> TRUE] :
               e \in E}
      \cup {[ty |-> "Expr", kind |-> "InSubquery", expr |-> One,
             subquery |-> Query(<<ExprId(A)>>, T, Some(e)), negated |-> n] :
               e \in E, n \in {TRUE}}
      \cup {[ty |-> "Expr", kind |-> "Between", expr |-> e, negated |-> n, low |-> One,
             high |-> ExprId(A)] : e \in E, n \in BOOLEAN}
      \cup {[ty |-> "Expr", kind |-> "BinaryOp", left |-> e,
             op |-> [ty |-> "BinaryOperator", kind |-> o], right |-> One] :
               e \in E, o \in {"Gt", "NotLike"}}
      \cup {[ty |-> "Expr", kind |-> "BinaryOp", left |-> ExprId(A),
             op |-> [ty |-> "BinaryOperator", kind |-> "Eq"], right |-> e] : e \in E}
      \cup {[ty |-> "Expr", kind |-> "Function",
             fun |-> [ty |-> "Function", name |-> T, distinct |-> d,
                      args |-> <<[ty |-> "FunctionArg", kind |-> "Unnamed", arg |-> e]>>,
                      over |-> None]] : e \in E, d \in BOOLEAN}
      \cup {[ty |-> "Expr", kind |-> "Function",
             fun |-> [ty |-> "Function", name |-> T, distinct |-> FALSE,
                      args |-> <<[ty |-> "FunctionArg", kind |-> "Named", name |-> A,
                                  arg |-> e]>>,
                      over |-> Some(SomeWindowSpec)]] : e \in E}
      \cup {[ty |-> "Expr", kind |-> "Case", operand |-> o, conditions |-> <<e>>,
             results |-> r, else_result |-> x] :
               e \in E, o \in Opt({ExprId(A)}), r \in {<<One>>, <<>>}, x \in {None}}
      \cup {[ty |-> "Expr", kind |-> "Case", operand |-> None, conditions |-> <<One, One>>,
             results |-> <<e>>, else_result |-> Some(e)] : e \in E}
      \cup {[ty |-> "Expr", kind |-> k, query |-> Query(<<e>>, T, None)] :
               k \in {"Exists", "Subquery"}, e \in E}
      \cup {[ty |-> "Expr", kind |-> "ListAgg",
             listagg |-> [ty |-> "ListAgg", distinct |-> FALSE, expr |-> e,
                          separator |-> z, on_overflow |-> o, within_group |-> <<>>]] :
               e \in E, z \in Opt({One}),
               o \in {None, Some([ty |-> "ListAggOnOverflow", kind |-> "Error"])}}
      \cup {[ty |-> "Expr", kind |-> "ListAgg",
             listagg |-> [ty |-> "ListAgg", distinct |-> TRUE, expr |-> One,
                          separator |-> None,
                          on_overflow |-> Some([ty |-> "ListAggOnOverflow", kind |-> "Truncate",
                                                filler |-> f0, with_count |-> w]),
                          within_group |-> <<[ty |-> "OrderByExpr", expr |-> e,
                                              asc |-> Some(TRUE)]>>]] :
               e \in E, f0 \in Opt({One}), w \in BOOLEAN}

RECURSIVE ExprsOfDepth(_)
ExprsOfDepth(d) == IF d = 0 THEN LeafExprs ELSE LeafExprs \cup Wrap(ExprsOfDepth(d - 1))

Exprs == FlatExprs \cup ExprsOfDepth(MaxDepth)

SimpleQuery == Query(<<ExprId(A)>>, T, None)

PartitionLists == Opt(SeqsUpTo({ExprId(A), ExprId(Ident(<<"b">>, Some(BQ)))}, MaxList))

TableNames == {T, ObjectName(<<Ident(<<"s">>, None), Ident(<<"t">>, Some(BQ))>>)}

Truncates ==
    {[ty |-> "Statement", kind |-> "Truncate", table_name |-> n, partitions |-> p] :
        n \in TableNames, p \in PartitionLists}

Analyzes ==
    {[ty |-> "Statement", kind |-> "Analyze", table_name |-> T, partitions |-> p,
      for_columns |-> fc, columns |-> cs, cache_metadata |-> b, noscan |-> b,
      compute_statistics |-> ~b] :
        p \in PartitionLists, fc \in BOOLEAN, cs \in {<<>>, <<A>>}, b \in BOOLEAN}

SqliteOnConflicts ==
    {[ty |-> "SqliteOnConflict", kind |-> k] :
        k \in {"Rollback", "Abort", "Fail", "Ignore", "Replace"}}

Inserts ==
    {[ty |-> "Statement", kind |-> "Insert", or |-> o, table_name |-> T, columns |-> cs,
      overwrite |-> ow, source |-> SimpleQuery, partitioned |-> p, after_columns |-> ac,
      table |-> ow] :
        o \in {None, Some([ty |-> "SqliteOnConflict", kind |-> "Replace"])},
        cs \in {<<>>, <<A>>}, ow \in BOOLEAN, p \in PartitionLists,
        ac \in {<<>>, <<A, A>>}}

CreateDatabases ==
    {[ty |-> "Statement", kind |-> "CreateDatabase", db_name |-> T, if_not_exists |-> e,
      location |-> l, managed_location |-> m] :
        e \in BOOLEAN, l \in Opt(StrValues), m \in Opt({<<"m">>, <<"'">>})}

ShowStatementFilters ==
    {[ty |-> "ShowStatementFilter", kind |-> k, pattern |-> v] :
        k \in {"Like", "ILike"}, v \in StrValues}
      \cup {[ty |-> "ShowStatementFilter", kind |-> "Where", expr |-> e] :
               e \in {One, ExprId(A)}}

ShowColumnss ==
    {[ty |-> "Statement", kind |-> "ShowColumns", extended |-> e, full |-> u,
      table_name |-> T, filter |-> x] :
        e \in BOOLEAN, u \in BOOLEAN, x \in Opt(ShowStatementFilters)}

Words == {[ty |-> "Word", value |-> <<"a">>, quote_style |-> q] :
             q \in {None, Some("\""), Some("["), Some(BQ), Some("'")}}

Tokens ==
    {[ty |-> "Token", kind |-> k] :
        k \in {"EOF", "Comma", "DoubleEq", "Spaceship", "Eq", "Neq", "Lt", "Gt", "LtEq",
               "GtEq", "Plus", "Minus", "Mult", "Div", "StringConcat", "Mod", "LParen",
               "RParen", "Period", "Colon", "DoubleColon", "SemiColon", "Backslash",
               "LBracket", "RBracket", "Ampersand", "Caret", "Pipe", "LBrace", "RBrace",
               "RArrow", "Sharp", "ExclamationMark", "DoubleExclamationMark", "Tilde",
               "AtSign", "ShiftLeft", "ShiftRight", "PGSquareRoot", "PGCubeRoot"}}
      \cup {[ty |-> "Token", kind |-> "Word", word |-> w] : w \in Words}
      \cup {[ty |-> "Token", kind |-> "Number", n |-> <<"1">>, long |-> l] : l \in BOOLEAN}
      \cup {[ty |-> "Token", kind |-> "Char", ch |-> "$"]}
      \cup {[ty |-> "Token", kind |-> k, s |-> v] :
               k \in {"SingleQuotedString", "NationalStringLiteral", "HexStringLiteral"},
               v \in StrValues}
      \cup {[ty |-> "Token", kind |-> "Whitespace", ws |-> [ty |-> "Whitespace", kind |-> k]] :
               k \in {"Space", "Newline", "Tab"}}
      \cup {[ty |-> "Token", kind |-> "Whitespace",
             ws |-> [ty |-> "Whitespace", kind |-> "SingleLineComment",
                     prefix |-> <<"-", "-">>, comment |-> <<"x">>]],
            [ty |-> "Token", kind |-> "Whitespace",
             ws |-> [ty |-> "Whitespace", kind |-> "MultiLineComment", s |-> <<"x">>]],
            [ty |-> "Token", kind |-> "ParameterMark", mark |-> "?"]}

ColA == [ty |-> "ColumnDef", name |-> A, data_type |-> DataType("Int"), options |-> <<>>]
ColB ==
    [ty |-> "ColumnDef", name |-> Ident(<<"b">>, Some(BQ)),
     data_type |-> [ty |-> "DataType", kind |-> "Varchar", size |-> Some(10)],
     options |-> <<[ty |-> "ColumnOptionDef", name |-> None,
                    option |-> [ty |-> "ColumnOption", kind |-> "NotNull"]]>>]
PrimaryKeyA ==
    [ty |-> "TableConstraint", kind |-> "Unique", name |-> None, columns |-> <<A>>,
     is_primary |-> TRUE]

OptionX == [ty |-> "SqlOption", name |-> Ident(<<"k">>, None), value |-> Number(<<"1">>)]

HiveDistributions ==
    {[kind |-> "NONE"],
     [kind |-> "PARTITIONED", columns |-> <<ColA>>],
     [kind |-> "CLUSTERED", columns |-> <<A>>, sorted_by |-> <<ColA>>, num_buckets |-> 4],
     [kind |-> "CLUSTERED", columns |-> <<A>>, sorted_by |-> <<>>, num_buckets |-> 0],
     [kind |-> "SKEWED", columns |-> <<ColA>>, on |-> <<ColA>>,
      stored_as_directories |-> TRUE]}

HiveFormats ==
    {None,
     Some([row_format |-> Some([kind |-> "SERDE", class |-> <<"c">>]),
           storage |-> Some([kind |-> "FileFormat",
                             format |-> [ty |-> "FileFormat", kind |-> "ORC"]]),
           location |-> Some(<<"h">>)]),
     Some([row_format |-> Some([kind |-> "DELIMITED"]),
           storage |-> Some([kind |-> "IOF", input_format |-> ExprId(A),
                             output_format |-> One]),
           location |-> None])}

CreateTables ==
    {[ty |-> "Statement", kind |-> "CreateTable", temporary |-> FALSE, name |-> T,
      columns |-> cs, constraints |-> ks, hive_distribution |-> hd, hive_formats |-> hf,
      table_properties |-> ps[1], with_options |-> ps[2],
      or_replace |-> fl[1], if_not_exists |-> fl[2], external |-> fl[3],
      file_format |-> IF fl[3] THEN Some([ty |-> "FileFormat", kind |-> "PARQUET"])
                      ELSE None,
      location |-> IF fl[3] THEN Some(<<"l">>) ELSE None,
      query |-> q, without_rowid |-> wl[1], like |-> wl[2]] :
        cs \in SeqsUpTo({ColA}, MaxList) \cup {<<ColB, ColA>>}, ks \in {<<>>, <<PrimaryKeyA>>},
        hd \in HiveDistributions, hf \in HiveFormats,
        ps \in {<<<<>>, <<>>>>, <<<<OptionX>>, <<>>>>, <<<<OptionX>>, <<OptionX, OptionX>>>>},
        fl \in {<<FALSE, FALSE, FALSE>>, <<TRUE, FALSE, TRUE>>, <<FALSE, TRUE, FALSE>>,
                <<TRUE, TRUE, TRUE>>},
        q \in Opt({SimpleQuery}),
        wl \in {<<FALSE, None>>, <<TRUE, Some(ObjectName(<<Ident(<<"u">>, None)>>))>>,
                <<FALSE, Some(ObjectName(<<Ident(<<"u">>, None)>>))>>}}

\* the statement the parser makes of: show variables like 'aurora_version'
ShowVariablesText ==
    <<"show", " ", "variables", " ", "like", " ", "'", "aurora", "_", "version", "'">>

ShowVariablesAst ==
    [ty |-> "Statement", kind |-> "ShowVariable",
     variable |-> <<Ident(<<"variables">>, None), Ident(<<"like">>, None),
                    Ident(<<"aurora", "_", "version">>, Some("'"))>>]

ShowVariables ==
    {[ty |-> "Statement", kind |-> "ShowVariable", variable |-> v] :
        v \in SeqsUpTo(SomeIdents \cup {Ident(<<"variables">>, None)}, MaxList)}
      \cup {ShowVariablesAst}

SetNamess ==
    {[ty |-> "Statement", kind |-> "SetNames", variable |-> v] :
        v \in Idents \cup {Ident(<<"utf8mb4">>, None)}}

CreateIndexes ==
    {[ty |-> "Statement", kind |-> "CreateIndex", name |-> n, table_name |-> T,
      columns |-> cs, unique |-> u, if_not_exists |-> e] :
        n \in TableNames, cs \in SeqsUpTo(SomeIdents, MaxList) \ {<<>>},
        u \in BOOLEAN, e \in BOOLEAN}

CreateSchemas ==
    {[ty |-> "Statement", kind |-> "CreateSchema", schema_name |-> n, if_not_exists |-> e] :
        n \in TableNames, e \in BOOLEAN}

Executes ==
    {[ty |-> "Statement", kind |-> "Execute", name |-> n, parameters |-> ps] :
        n \in SomeIdents,
        ps \in SeqsUpTo({ExprId(A), ExprId(Ident(<<"b">>, Some(BQ)))}, MaxList)}

\* the closed keyword sets and the variants of each
KeywordSets ==
    {"FileFormat", "UnaryOperator", "BinaryOperator", "ObjectType", "TransactionAccessMode",
     "TransactionIsolationLevel", "WindowFrameUnits", "AddDropSync", "SqliteOnConflict"}

Variants(ty) ==
    CASE ty = "FileFormat" ->
            {"TEXTFILE", "SEQUENCEFILE", "ORC", "PARQUET", "AVRO", "RCFILE", "JSONFILE"}
      [] ty = "UnaryOperator" ->
            {"Plus", "Minus", "Not", "PGBitwiseNot", "PGSquareRoot", "PGCubeRoot",
             "PGPostfixFactorial", "PGPrefixFactorial", "PGAbs"}
      [] ty = "BinaryOperator" ->
            {"Plus", "Minus", "Multiply", "Divide", "Modulus", "StringConcat", "Gt", "Lt",
             "GtEq", "LtEq", "Spaceship", "Eq", "NotEq", "And", "Or", "Like", "NotLike",
             "BitwiseOr", "BitwiseAnd", "BitwiseXor", "PGBitwiseXor", "PGBitwiseShiftLeft",
             "PGBitwiseShiftRight", "ILike", "NotILike"}
      [] ty = "ObjectType" -> {"Table", "View", "Index", "Schema"}
      [] ty = "TransactionAccessMode" -> {"ReadOnly", "ReadWrite"}
      [] ty = "TransactionIsolationLevel" ->
            {"ReadUncommitted", "ReadCommitted", "RepeatableRead", "Serializable"}
      [] ty = "WindowFrameUnits" -> {"Rows", "Range", "Groups"}
      [] ty = "AddDropSync" -> {"SYNC", "DROP", "ADD"}
      [] ty = "SqliteOnConflict" -> {"Rollback", "Abort", "Fail", "Ignore", "Replace"}

Keywords == UNION {{[ty |-> ty, kind |-> k] : k \in Variants(ty)} : ty \in KeywordSets}

\* inputs of the Analysis Pass
B == Ident(<<"b">>, None)
D == Ident(<<"d">>, None)

AnOptions ==
    {[ty |-> "ColumnOption", kind |-> "NotNull"],
     [ty |-> "ColumnOption", kind |-> "Unique", is_primary |-> TRUE],
     [ty |-> "ColumnOption", kind |-> "Default", expr |-> One],
     [ty |-> "ColumnOption", kind |-> "Check", expr |-> ExprId(B)],
     [ty |-> "ColumnOption", kind |-> "DialectSpecific",
      tokens |-> <<[ty |-> "Token", kind |-> "Comma"], [ty |-> "Token", kind |-> "Eq"]>>],
     [ty |-> "ColumnOption", kind |-> "ForeignKey", foreign_table |-> T,
      referred_columns |-> <<>>, on_delete |-> None,
      on_update |-> Some([ty |-> "ReferentialAction", kind |-> "Cascade"])],
     [ty |-> "ColumnOption", kind |-> "ForeignKey", foreign_table |-> T,
      referred_columns |-> <<B, D>>,
      on_delete |-> Some([ty |-> "ReferentialAction", kind |-> "SetNull"]),
      on_update |-> None],
     [ty |-> "ColumnOption", kind |-> "ForeignKey", foreign_table |-> T,
      referred_columns |-> <<B>>,
      on_delete |-> Some([ty |-> "ReferentialAction", kind |-> "Restrict"]),
      on_update |-> Some([ty |-> "ReferentialAction", kind |-> "Cascade"])]}

AnOptionDefs ==
    {[ty |-> "ColumnOptionDef", name |-> None, option |-> o] : o \in AnOptions}
      \cup {[ty |-> "ColumnOptionDef", name |-> Some(D),
             option |-> [ty |-> "ColumnOption", kind |-> "Null"]]}

AnColumnDefs ==
    {[ty |-> "ColumnDef", name |-> A, data_type |-> DataType("Int"), options |-> o] :
        o \in SeqsUpTo(AnOptionDefs, MaxList)}

AnTableConstraints ==
    {[ty |-> "TableConstraint", kind |-> "Unique", name |-> n, columns |-> cs,
      is_primary |-> (n = None)] :
        n \in Opt({D}), cs \in SeqsUpTo({A, B}, MaxList)}
      \cup {[ty |-> "TableConstraint", kind |-> "ForeignKey", name |-> n, columns |-> cs,
             foreign_table |-> T, referred_columns |-> rs] :
               n \in Opt({D}), cs \in {<<A>>, <<A, B>>}, rs \in {<<>>, <<D>>}}
      \cup {[ty |-> "TableConstraint", kind |-> "Check", name |-> n, expr |-> One] :
               n \in Opt({D})}

AnAlterTableOperations ==
    {[ty |-> "AlterTableOperation", kind |-> "AddPartitions", if_not_exists |-> TRUE,
      new_partitions |-> ps] : ps \in SeqsUpTo({One, ExprId(B)}, MaxList)}
      \cup {[ty |-> "AlterTableOperation", kind |-> "DropPartitions", if_exists |-> FALSE,
             partitions |-> ps] : ps \in SeqsUpTo({One, ExprId(B)}, MaxList)}
      \cup {[ty |-> "AlterTableOperation", kind |-> "RenamePartitions",
             old_partitions |-> ps, new_partitions |-> qs] :
               ps \in {<<One>>, <<One, ExprId(B)>>}, qs \in {<<ExprId(A)>>, <<>>}}
      \cup {[ty |-> "AlterTableOperation", kind |-> "AddConstraint", c |-> k] :
               k \in AnTableConstraints}
      \cup {[ty |-> "AlterTableOperation", kind |-> "AddColumn", column_def |-> d] :
               d \in {x \in AnColumnDefs : Len(x.options) <= 1}}
      \cup {[ty |-> "AlterTableOperation", kind |-> "DropConstraint", name |-> D],
            [ty |-> "AlterTableOperation", kind |-> "DropColumn", column_name |-> A,
             if_exists |-> TRUE, cascade |-> FALSE],
            [ty |-> "AlterTableOperation", kind |-> "RenameColumn", old_column_name |-> A,
             new_column_name |-> B],
            [ty |-> "AlterTableOperation", kind |-> "RenameTable", table_name |-> T]}

\* the node the stub accumulator fails on, if any
Marks ==
    Opt({A, B, D, T, One, ExprId(A), ExprId(B), DataType("Int"),
         [ty |-> "Token", kind |-> "Eq"]})

\* what the accumulator holds before the call
Accumulators == {<<>>, <<T>>}

-----------------------------------------------------------------------------
(* The state machine: a caller hands a node, a sink and a context to       *)
(* rewrite, or a node and an accumulator to analyse; the call runs to      *)
(* completion; the caller then drops the statement and its result.         *)

Init ==
    /\ f = <<>> /\ f_pre = <<>> /\ ctx = EmptyCtx
    /\ node = [ty |-> "none"] /\ trail = <<>> /\ res = "None" /\ pass = "none"
    /\ acc = <<>> /\ acc_pre = <<>> /\ mark = <<>> /\ retry = None

\* a renderer that takes back what it wrote when the call does not succeed,
\* and with it the text the caller had put in the sink
CallRewrite_clearing(t, s, c) ==
    LET ev == Rewrite(t, c) IN
    /\ node' = t /\ f_pre' = s /\ ctx' = c
    /\ trail' = Cut(ev)
    /\ f' = IF Outcome(ev) = "Ok" THEN s \o Atoms(Cut(ev)) ELSE <<>>
    /\ res' = Outcome(ev)
    /\ pass' = "rewrite"
    /\ UNCHANGED <<acc, acc_pre, mark, retry>>

\* t.rewrite(&mut s, &c)
CallRewrite(t, s, c) ==
    LET ev == Rewrite(t, c) IN
    /\ node' = t /\ f_pre' = s /\ ctx' = c
    /\ trail' = Cut(ev)
    /\ f' = s \o Atoms(Cut(ev))
    /\ res' = Outcome(ev)
    /\ pass' = "rewrite"
    /\ UNCHANGED <<acc, acc_pre, mark, retry>>

\* an analysis that empties the sink and the context it finds
CallAnalyse_clearing(t, a, m) ==
    LET ev == Analyse(t, m) IN
    /\ node' = t /\ acc_pre' = a /\ mark' = m
    /\ trail' = Cut(ev)
    /\ acc' = a \o Nodes(Cut(ev))
    /\ res' = Outcome(ev)
    /\ pass' = "analyse"
    /\ f' = <<>> /\ f_pre' = <<>> /\ ctx' = EmptyCtx
    /\ UNCHANGED retry

\* t.analyse(&mut a), with a stub accumulator that fails on m
CallAnalyse(t, a, m) ==
    LET ev == Analyse(t, m) IN
    /\ node' = t /\ acc_pre' = a /\ mark' = m
    /\ trail' = Cut(ev)
    /\ acc' = a \o Nodes(Cut(ev))
    /\ res' = Outcome(ev)
    /\ pass' = "analyse"
    /\ UNCHANGED <<f, f_pre, ctx, retry>>

\* a renderer that remembers the node it rendered last and writes nothing
\* when asked for it again
RetryRewrite_memo(t, s, c) ==
    IF t = node THEN [out |-> s, res |-> "Ok"]
    ELSE [out |-> s \o Atoms(Cut(Rewrite(t, c))), res |-> Outcome(Rewrite(t, c))]

\* t.rewrite(&mut s, &c) once more: the sink and the outcome it ends with.
\* rewrite takes &self, &mut String and &HashMap and nothing else; the code
\* holds no static, cell or other state between calls
RetryRewrite(t, s, c) ==
    LET ev == Rewrite(t, c) IN
    [out |-> s \o Atoms(Cut(ev)), res |-> Outcome(ev)]

\* t.analyse(&mut a) once more, the stub accumulator failing on m as before
RetryAnalyse(t, a, m) ==
    LET ev == Analyse(t, m) IN
    [out |-> a \o Nodes(Cut(ev)), res |-> Outcome(ev)]

\* the caller repeats the rewrite call on the same node and context, with a
\* sink equal to the one it handed in before
RewriteAgain ==
    /\ pass = "rewrite" /\ retry = None
    /\ retry' = Some(RetryRewrite(node, f_pre, ctx))
    /\ UNCHANGED <<f, f_pre, ctx, node, trail, res, pass, acc, acc_pre, mark>>

\* the caller repeats the analyse call on the same node, with an accumulator
\* equal to the one it handed in before
AnalyseAgain ==
    /\ pass = "analyse" /\ retry = None
    /\ retry' = Some(RetryAnalyse(node, acc_pre, mark))
    /\ UNCHANGED <<f, f_pre, ctx, node, trail, res, pass, acc, acc_pre, mark>>

RewriteIdent == pass = "none" /\ \E t \in Idents, s \in Sinks, c \in Contexts : CallRewrite(t, s, c)

RewriteSeparated == pass = "none" /\ \E t \in SeparatedLists, s \in Sinks, c \in Contexts : CallRewrite(t, s, c)

RewriteObjectName == pass = "none" /\ \E t \in ObjectNames, c \in Contexts : CallRewrite(t, <<>>, c)

\* the caller that has rendered a name analyses a column option while the
\* sink and the context of the render are still alive
AnalyseAfterRewrite ==
    /\ pass = "rewrite" /\ retry = None /\ node \in SomeIdents /\ acc = <<>> /\ mark = <<>>
    /\ \E t \in AnOptionDefs, a \in Accumulators, m \in Marks : CallAnalyse(t, a, m)

\* the caller that has analysed a column option renders a name while the
\* accumulator of the analysis is still alive
RewriteAfterAnalyse ==
    /\ pass = "analyse" /\ retry = None /\ node \in AnOptionDefs /\ f = <<>> /\ ctx = EmptyCtx
    /\ \E t \in SomeIdents, s \in Sinks, c \in Contexts : CallRewrite(t, s, c)

RewriteCreateSchema ==
    pass = "none" /\ \E t \in CreateSchemas, s \in Sinks, c \in ExprContexts : CallRewrite(t, s, c)

RewriteExecute ==
    pass = "none" /\ \E t \in Executes, s \in Sinks, c \in ExprContexts : CallRewrite(t, s, c)

RewriteKeyword ==
    pass = "none" /\ \E t \in Keywords, s \in Sinks, c \in Contexts : CallRewrite(t, s, c)

\* the statement has been dispatched: tree, sink, context and accumulator go
DiscardStatement ==
    /\ pass # "none"
    /\ f' = <<>> /\ f_pre' = <<>> /\ ctx' = EmptyCtx
    /\ node' = [ty |-> "none"] /\ trail' = <<>> /\ res' = "None" /\ pass' = "none"
    /\ acc' = <<>> /\ acc_pre' = <<>> /\ mark' = <<>> /\ retry' = None

RewriteExpr == pass = "none" /\ \E t \in Exprs, c \in ExprContexts : CallRewrite(t, <<>>, c)

RewriteDataType == pass = "none" /\ \E t \in DataTypes, s \in Sinks, c \in Contexts : CallRewrite(t, s, c)

RewriteWindowSpec == pass = "none" /\ \E t \in WindowSpecs, c \in Contexts : CallRewrite(t, <<>>, c)

RewriteToken == pass = "none" /\ \E t \in Tokens, s \in Sinks, c \in Contexts : CallRewrite(t, s, c)

RewriteShowStatementFilter ==
    pass = "none" /\ \E t \in ShowStatementFilters, s \in Sinks, c \in Contexts : CallRewrite(t, s, c)

RewriteTruncate == pass = "none" /\ \E t \in Truncates, c \in ExprContexts : CallRewrite(t, <<>>, c)

RewriteAnalyze == pass = "none" /\ \E t \in Analyzes, c \in ExprContexts : CallRewrite(t, <<>>, c)

RewriteInsert == pass = "none" /\ \E t \in Inserts, c \in ExprContexts : CallRewrite(t, <<>>, c)

RewriteCreateDatabase ==
    pass = "none" /\ \E t \in CreateDatabases, c \in ExprContexts : CallRewrite(t, <<>>, c)

RewriteShowColumns ==
    pass = "none" /\ \E t \in ShowColumnss, c \in ExprContexts : CallRewrite(t, <<>>, c)

RewriteShowVariable ==
    pass = "none" /\ \E t \in ShowVariables, s \in Sinks, c \in ExprContexts : CallRewrite(t, s, c)

RewriteSetNames ==
    pass = "none" /\ \E t \in SetNamess, s \in Sinks, c \in ExprContexts : CallRewrite(t, s, c)

RewriteCreateIndex ==
    pass = "none" /\ \E t \in CreateIndexes, c \in ExprContexts : CallRewrite(t, <<>>, c)

RewriteCreateTable ==
    pass = "none" /\ \E t \in CreateTables, c \in ExprContexts : CallRewrite(t, <<>>, c)

AnalyseColumnOptionDef ==
    pass = "none" /\ \E t \in AnOptionDefs, a \in Accumulators, m \in Marks : CallAnalyse(t, a, m)

AnalyseColumnDef ==
    pass = "none" /\ \E t \in AnColumnDefs, a \in Accumulators, m \in Marks : CallAnalyse(t, a, m)

AnalyseTableConstraint ==
    pass = "none" /\ \E t \in AnTableConstraints, a \in Accumulators, m \in Marks : CallAnalyse(t, a, m)

AnalyseAlterTableOperation ==
    pass = "none"
      /\ \E t \in AnAlterTableOperations, a \in Accumulators, m \in Marks : CallAnalyse(t, a, m)

Next ==
    \/ RewriteIdent
    \/ RewriteSeparated
    \/ RewriteObjectName
    \/ RewriteExpr
    \/ RewriteDataType
    \/ RewriteWindowSpec
    \/ RewriteToken
    \/ RewriteShowStatementFilter
    \/ RewriteTruncate
    \/ RewriteAnalyze
    \/ RewriteInsert
    \/ RewriteCreateDatabase
    \/ RewriteShowColumns
    \/ RewriteCreateTable
    \/ RewriteShowVariable
    \/ RewriteSetNames
    \/ RewriteCreateIndex
    \/ AnalyseColumnOptionDef
    \/ AnalyseColumnDef
    \/ AnalyseTableConstraint
    \/ AnalyseAlterTableOperation
    \/ RewriteCreateSchema
    \/ RewriteExecute
    \/ RewriteKeyword
    \/ AnalyseAfterRewrite
    \/ RewriteAfterAnalyse
    \/ RewriteAgain
    \/ AnalyseAgain
    \/ DiscardStatement

Spec == Init /\ [][Next]_vars

-----------------------------------------------------------------------------
(* Properties.                                                             *)

\* what the last call appended to the sink
Appended == SubSeq(f, Len(f_pre) + 1, Len(f))

QuoteAtoms == {"\"", "'", BQ, "[", "]"}

\* C1: rendering an Identifier appends `[` value `]` for the marker `[`,
\* marker value marker for the markers `"`, `'` and backquote, and the value
\* alone, with no quote character around it, when there is no marker.
C1_IdentQuoting ==
    (pass = "rewrite" /\ node.ty = "Ident") =>
        LET q == node.quote_style
            v == node.value
        IN  /\ q = Some("[") => (res = "Ok" /\ f = f_pre \o <<"[">> \o v \o <<"]">>)
            /\ (\E m \in {"\"", "'", BQ} : q = Some(m)) =>
                   (res = "Ok" /\ f = f_pre \o <<q[1]>> \o v \o <<q[1]>>)
            /\ q = None =>
                   /\ res = "Ok" /\ f = f_pre \o v
                   /\ \A i \in 1..Len(Appended) : Appended[i] \notin QuoteAtoms

C1_Witness ==
    /\ pass = "rewrite" /\ node.ty = "Ident" /\ node.quote_style = Some("[")
    /\ f_pre # <<>> /\ Appended = <<"[", "a", " ", "b", "]">>

\* item1 sep item2 ... sep itemN
RECURSIVE Joined(_, _)
Joined(texts, sep) ==
    IF texts = <<>> THEN <<>>
    ELSE IF Len(texts) = 1 THEN texts[1]
    ELSE texts[1] \o sep \o Joined(Tail(texts), sep)

Count(s, a) == Cardinality({i \in 1..Len(s) : s[i] = a})

\* C2: a list of N > 0 items rendered through the separator combinator is
\* item1 sep item2 ... sep itemN: N-1 separators, none before the first item
\* and none after the last; a list of no items writes nothing.  (The items
\* of the lists tried hold no separator character themselves, so the
\* separators in the output are those the combinator wrote.)
C2_SeparatedList ==
    (pass = "rewrite" /\ node.ty = "DisplaySeparated" /\ res = "Ok") =>
        LET n == Len(node.slice)
            texts == [i \in 1..n |-> Atoms(Rewrite(node.slice[i], ctx))]
        IN  /\ Appended = Joined(texts, node.sep)
            /\ n = 0 => f = f_pre
            /\ n > 0 =>
                  /\ Count(Appended, node.sep[1]) = n - 1
                  /\ Appended[1] # node.sep[1]
                  /\ Appended[Len(Appended)] # node.sep[Len(node.sep)]

C2_Witness ==
    /\ pass = "rewrite" /\ node.ty = "DisplaySeparated" /\ res = "Ok"
    /\ Len(node.slice) = 2 /\ node.sep = <<",", " ">>
    /\ Appended = <<"a", ",", " ", BQ, "b", BQ>>

\* the sequence sub occurs in s at position i
OccursAt(s, sub, i) == i >= 1 /\ i + Len(sub) - 1 <= Len(s) /\ SubSeq(s, i, i + Len(sub) - 1) = sub

Contains(s, sub) == \E i \in 1..(Len(s) + 1) : OccursAt(s, sub, i)

IsCreateTable == pass = "rewrite" /\ node.ty = "Statement" /\ node.kind = "CreateTable"

\* where the table name of a rendered CREATE TABLE ends
NameEnd ==
    Len(CreateTable_flags(node, ctx)) + Len(ObjectName_rewrite(node.name, ctx))

NoLists == node.columns = <<>> /\ node.constraints = <<>>

\* C3 as stated: with both lists empty and no AS-query the two characters
\* `()` come immediately after the table name; with both lists empty and an
\* AS-query no parenthesised column list is written.
C3_EmptyParensDirectlyAfterName ==
    (IsCreateTable /\ res = "Ok" /\ NoLists) =>
        /\ node.query = None => OccursAt(Appended, <<"(", ")">>, NameEnd + 1)
        /\ node.query # None => ~OccursAt(Appended, <<" ", "(">>, NameEnd + 1)

\* C3, amended: with both lists empty and no AS-query a single space and
\* then `()` come directly after the table name; with both lists empty and
\* an AS-query no parenthesised column list is written (the name is followed
\* by the next clause).
C3_EmptyParens ==
    (IsCreateTable /\ res = "Ok" /\ NoLists) =>
        /\ node.query = None => OccursAt(Appended, <<" ", "(", ")">>, NameEnd + 1)
        /\ node.query # None =>
              /\ ~OccursAt(Appended, <<" ", "(">>, NameEnd + 1)
              /\ ~Contains(Appended, <<"(", ")">>)

C3_Witness ==
    /\ IsCreateTable /\ res = "Ok" /\ NoLists /\ node.query = None
    /\ node.hive_distribution.kind = "NONE" /\ node.hive_formats = None
    /\ ~node.external /\ ~node.or_replace /\ ~node.if_not_exists
    /\ node.table_properties = <<>> /\ ~node.without_rowid /\ node.like = None
    /\ f = <<"CREATE", " ", "TABLE", " ", "t", " ", "(", ")">>

\* the clauses of CREATE TABLE in the order the design states
ClauseOrder ==
    <<"flags", "name", "columns", "without_rowid", "like", "hive_distribution",
      "hive_row_format", "hive_storage", "hive_location", "external", "table_properties",
      "with_options", "query">>

\* the text of one clause of the CREATE TABLE held in node
ClauseText(cl) ==
    Atoms(CASE cl = "flags" -> CreateTable_flags(node, ctx)
            [] cl = "name" -> ObjectName_rewrite(node.name, ctx)
            [] cl = "columns" -> CreateTable_columns(node, ctx)
            [] cl = "without_rowid" -> CreateTable_without_rowid(node, ctx)
            [] cl = "like" -> CreateTable_like(node, ctx)
            [] cl = "hive_distribution" -> CreateTable_hive_distribution(node, ctx)
            [] cl = "hive_row_format" -> CreateTable_hive_row_format(node, ctx)
            [] cl = "hive_storage" -> CreateTable_hive_storage(node, ctx)
            [] cl = "hive_location" -> CreateTable_hive_location(node, ctx)
            [] cl = "external" -> CreateTable_external(node, ctx)
            [] cl = "table_properties" -> CreateTable_table_properties(node, ctx)
            [] cl = "with_options" -> CreateTable_with_options(node, ctx)
            [] cl = "query" -> CreateTable_query(node, ctx))

\* the first position of atom a in s (0: nowhere)
FirstPos(s, a) ==
    LET at == {i \in 1..Len(s) : s[i] = a} IN IF at = {} THEN 0 ELSE Min(at)

\* C4: the text of a CREATE TABLE is the texts of its clauses in the fixed
\* order flags, name, column+constraint list, WITHOUT ROWID, LIKE, Hive
\* distribution, Hive row format, Hive storage format (with its location),
\* external STORED AS + LOCATION, TBLPROPERTIES, WITH options, AS-query; so
\* the keywords that open the clauses present stand in that order.
C4_ClauseOrder ==
    (IsCreateTable /\ res = "Ok") =>
        /\ Appended = Flatten([i \in 1..Len(ClauseOrder) |-> ClauseText(ClauseOrder[i])])
        /\ LET kw == <<"CREATE", "WITHOUT", "LIKE", "ROW", "TBLPROPERTIES", "WITH", "AS">>
               at == [i \in 1..Len(kw) |->
                         IF kw[i] = "AS"
                         THEN (IF node.query = None THEN 0
                               ELSE Len(Appended) - Len(ClauseText("query")) + 2)
                         ELSE FirstPos(Appended, kw[i])]
           IN  \A i, j \in 1..Len(kw) : (i < j /\ at[i] > 0 /\ at[j] > 0) => at[i] < at[j]

C4_Witness ==
    /\ IsCreateTable /\ res = "Ok"
    /\ node.columns # <<>> /\ node.without_rowid /\ node.like # None
    /\ node.hive_distribution.kind = "CLUSTERED" /\ node.hive_formats # None
    /\ node.external /\ node.or_replace
    /\ node.table_properties # <<>> /\ node.with_options # <<>> /\ node.query # None
    /\ FirstPos(Appended, "TBLPROPERTIES") > 0
    /\ FirstPos(Appended, "TBLPROPERTIES") < FirstPos(Appended, "WITH")

\* what the last analyse call recorded in the accumulator
Visited == SubSeq(acc, Len(acc_pre) + 1, Len(acc))

\* the nodes an analyse call on node hands to an accumulator that never fails
Traversal == Nodes(Analyse(node, None))

\* C5: when the accumulator fails on a node of the traversal, the analyse
\* call of the enclosing DDL node returns failure, the nodes visited are
\* exactly those before the failing one in traversal order, and none after
\* it is visited; without a failure the whole traversal is visited.  For a
\* ColumnDef the traversal order is name, data type, then the options in
\* list order.
C5_FailFast ==
    pass = "analyse" =>
        LET fails == {i \in 1..Len(Traversal) : mark = Some(Traversal[i])} IN
        /\ acc = acc_pre \o Visited
        /\ fails = {} => (res = "Ok" /\ Visited = Traversal)
        /\ fails # {} =>
              /\ res = "Err"
              /\ Visited = SubSeq(Traversal, 1, Min(fails) - 1)
              /\ \A i \in 1..Len(Visited) : mark # Some(Visited[i])
        /\ node.ty = "ColumnDef" =>
              Traversal = <<node.name, node.data_type>>
                            \o Flatten([i \in 1..Len(node.options) |->
                                           Nodes(ColumnOptionDef_analyse(node.options[i], None))])

C5_Witness ==
    /\ pass = "analyse" /\ node.ty = "ColumnDef" /\ res = "Err"
    /\ mark = Some(node.data_type) /\ Len(Traversal) > 3
    /\ acc_pre # <<>> /\ Visited = <<node.name>>

\* is there an entry for the name k in the render context c
HasEntry(c, k) == c # EmptyCtx /\ k \in DOMAIN c

\* an identifier text in its quotes
Quoted(q, v) ==
    IF q = None THEN v
    ELSE IF q = Some("[") THEN <<"[">> \o v \o <<"]">>
    ELSE <<q[1]>> \o v \o <<q[1]>>

\* C6 as stated: an identifier whose name has an entry in the render
\* context is rendered using that entry; with an empty mapping it is
\* rendered verbatim.
C6_ContextEntryUsed ==
    (pass = "rewrite" /\ node.ty = "Ident" /\ res = "Ok") =>
        /\ HasEntry(ctx, node.value) => Appended = Quoted(node.quote_style, ctx[node.value])
        /\ ctx = EmptyCtx => Appended = Quoted(node.quote_style, node.value)

\* C7: in one Render traversal every write is made by a function holding
\* the context the caller supplied, and what is written, and the outcome,
\* are the same whatever that context is.
C7_ContextPropagated ==
    pass = "rewrite" =>
        /\ \A i \in 1..Len(trail) : trail[i].c = ctx
        /\ \A c2 \in Contexts :
              /\ Atoms(Cut(Rewrite(node, c2))) = Appended
              /\ Outcome(Rewrite(node, c2)) = res

C7_Witness ==
    /\ pass = "rewrite" /\ node.ty = "Expr" /\ node.kind = "InSubquery" /\ res = "Ok"
    /\ HasEntry(ctx, <<"a">>)
    /\ \E i \in 1..Len(trail) : trail[i].a = "a" /\ trail[i].c = ctx
    /\ Len(trail) > 10

IsPlaceholder ==
    \/ node.ty = "Expr" /\ node.kind \in {"TryCast", "ParameterMark"}
    \/ node.ty = "Token" /\ node.kind = "ParameterMark"
    \/ node.ty = "ShowStatementFilter" /\ node.kind = "ILike"

\* C8: rendering Expr::TryCast, Expr::ParameterMark, Token::ParameterMark
\* or ShowStatementFilter::ILike succeeds and leaves the sink as it was.
C8_Placeholders ==
    (pass = "rewrite" /\ IsPlaceholder) => (res = "Ok" /\ f = f_pre /\ trail = <<>>)

C8_Witness ==
    /\ pass = "rewrite" /\ node.ty = "ShowStatementFilter" /\ node.kind = "ILike"
    /\ node.pattern # <<>> /\ res = "Ok" /\ f = <<"x", " ">> /\ f_pre = f

\* the partition list of a TRUNCATE, ANALYZE or INSERT
PartitionsOf(n) == IF n.kind = "Insert" THEN n.partitioned ELSE n.partitions

\* C9: TRUNCATE, ANALYZE and INSERT write `PARTITION (` list `)` when the
\* partition list is present and non-empty, and then once; when it is absent
\* or empty they write no PARTITION keyword and no `()` pair.
C9_PartitionClause ==
    (pass = "rewrite" /\ node.ty = "Statement"
       /\ node.kind \in {"Truncate", "Analyze", "Insert"} /\ res = "Ok") =>
        LET p == PartitionsOf(node) IN
        IF IsSome(p) /\ p[1] # <<>>
        THEN /\ Count(Appended, "PARTITION") = 1
             /\ Contains(Appended,
                         <<"PARTITION", " ", "(">>
                           \o Atoms(display_comma_separated(p[1], ctx)) \o <<")">>)
        ELSE /\ Count(Appended, "PARTITION") = 0
             /\ ~Contains(Appended, <<"(", ")">>)

C9_Witness ==
    /\ pass = "rewrite" /\ node.ty = "Statement" /\ node.kind = "Truncate" /\ res = "Ok"
    /\ node.partitions = Some(<<>>)
    /\ f = <<"TRUNCATE", " ", "TABLE", " ", "t">>

\* the strings the node held in `node` writes between single quotes
QuotedLiterals ==
    CASE node.ty = "Expr" /\ node.kind = "TypedString" -> {node.value}
      [] node.ty = "ShowStatementFilter" /\ node.kind = "Like" -> {node.pattern}
      [] node.ty = "Token" /\ node.kind = "SingleQuotedString" -> {node.s}
      [] node.ty = "Statement" /\ node.kind = "CreateDatabase" ->
            {node.location[i] : i \in 1..Len(node.location)}
              \cup {node.managed_location[i] : i \in 1..Len(node.managed_location)}
      [] OTHER -> {}

\* C10 as stated: every string the Render Pass writes between single quotes
\* is written escaped by escape_single_quote_string, so the text holds the
\* literal ' escaped-value ' and its quotes pair up.
C10_QuotedLiteralsEscaped ==
    (pass = "rewrite" /\ res = "Ok") =>
        \A v \in QuotedLiterals :
            /\ Contains(Appended, <<"'">> \o escape_single_quote_string(v) \o <<"'">>)
            /\ Count(Appended, "'") % 2 = 0

\* str::to_uppercase, on the atoms of the statements tried
ToUpper(a) ==
    CASE a = "show" -> "SHOW" [] a = "variables" -> "VARIABLES" [] a = "like" -> "LIKE"
      [] a = "aurora" -> "AURORA" [] a = "version" -> "VERSION"
      [] a = "set" -> "SET" [] a = "names" -> "NAMES" [] a = "utf8mb4" -> "UTF8MB4"
      [] a = "a" -> "A" [] a = "b" -> "B" [] a = "t" -> "T"
      [] OTHER -> a

to_uppercase(s) == [i \in 1..Len(s) |-> ToUpper(s[i])]

IsShowVariable == pass = "rewrite" /\ node.ty = "Statement" /\ node.kind = "ShowVariable"

\* C11 as stated: rendering the statement parsed from
\* show variables like 'aurora_version' with an empty context into an empty
\* sink gives the input text, compared case-insensitively; exactly one space
\* follows SHOW.
C11_ShowVariablesRoundTrip ==
    (IsShowVariable /\ f_pre = <<>> /\ ctx = EmptyCtx) =>
        /\ res = "Ok"
        /\ node = ShowVariablesAst => to_uppercase(f) = to_uppercase(ShowVariablesText)
        /\ node.variable # <<>> => (f[1] = "SHOW" /\ f[2] = " " /\ f[3] # " ")

IsSetNames == pass = "rewrite" /\ node.ty = "Statement" /\ node.kind = "SetNames"

\* C12: rendering SET NAMES with an unquoted variable v into an empty sink
\* gives SET NAMES, one space, then v; so SET NAMES utf8mb4 comes out as
\* itself, compared case-insensitively.
C12_SetNames ==
    (IsSetNames /\ node.variable.quote_style = None /\ f_pre = <<>>) =>
        /\ res = "Ok"
        /\ f = <<"SET", " ", "NAMES", " ">> \o node.variable.value
        /\ node.variable.value = <<"utf8mb4">> =>
              to_uppercase(f) = to_uppercase(<<"SET", " ", "NAMES", " ", "utf8mb4">>)

C12_Witness ==
    /\ IsSetNames /\ node.variable = Ident(<<"utf8mb4">>, None) /\ f_pre = <<>>
    /\ res = "Ok" /\ f = <<"SET", " ", "NAMES", " ", "utf8mb4">>

\* C13: rendering an Identifier whose quote marker is present and is none of
\* `"`, `'`, backquote, `[` panics: it returns neither an error nor success,
\* and appends nothing to the sink.
C13_UnknownQuotePanics ==
    (pass = "rewrite" /\ node.ty = "Ident" /\ node.quote_style # None
       /\ node.quote_style[1] \notin {"\"", "'", BQ, "["}) =>
        (res = "Panic" /\ f = f_pre /\ trail = <<>>)

C13_Witness ==
    /\ pass = "rewrite" /\ node.ty = "Ident" /\ node.quote_style = Some("#")
    /\ res = "Panic" /\ f_pre # <<>> /\ f = f_pre

\* C14 as stated: a failure of a write to the sink, inside the rewrite of
\* any node, is returned by that rewrite call and so by every enclosing one:
\* the Result of every write performed is handed on to the caller, none is
\* dropped.
C14_WriteFailureReturned ==
    pass = "rewrite" => \A i \in 1..Len(trail) : trail[i].checked

Texts(items) == [i \in 1..Len(items) |-> Atoms(Rewrite(items[i], ctx))]

IsCreateIndex == pass = "rewrite" /\ node.ty = "Statement" /\ node.kind = "CreateIndex"

IsInsert == pass = "rewrite" /\ node.ty = "Statement" /\ node.kind = "Insert"

\* C15 as stated: in the text of every statement a list of columns is joined
\* with comma and one space, a compound name with `.` and a space-joined
\* clause with one space; so the column lists of INSERT and of CREATE INDEX
\* appear between their parentheses as item1, item2, ... itemN.
C15_UniformSeparators ==
    (pass = "rewrite" /\ res = "Ok") =>
        /\ node.ty = "ObjectName" => Appended = Joined(Texts(node.idents), <<".">>)
        /\ IsShowVariable => Contains(Appended, Joined(Texts(node.variable), <<" ">>))
        /\ (IsInsert /\ node.after_columns # <<>>) =>
              Contains(Appended,
                       <<"(">> \o Joined(Texts(node.after_columns), <<",", " ">>) \o <<")">>)
        /\ IsCreateIndex =>
              Contains(Appended,
                       <<"(">> \o Joined(Texts(node.columns), <<",", " ">>) \o <<")">>)

IsDecimal == pass = "rewrite" /\ node.ty = "DataType" /\ node.kind = "Decimal"

\* C16: rendering a Decimal appends NUMERIC(p,s) when precision and scale are
\* both present, NUMERIC(p) when only the precision is, NUMERIC when neither
\* is; with a scale and no precision the call panics: it returns neither
\* success nor an error, and writes nothing.
C16_Decimal ==
    IsDecimal =>
        LET p == node.precision
            z == node.scale
        IN  /\ (IsSome(p) /\ IsSome(z)) =>
                  (res = "Ok" /\ Appended = <<"NUMERIC", "(", ToString(p[1]), ",",
                                               ToString(z[1]), ")">>)
            /\ (IsSome(p) /\ z = None) =>
                  (res = "Ok" /\ Appended = <<"NUMERIC", "(", ToString(p[1]), ")">>)
            /\ (p = None /\ z = None) => (res = "Ok" /\ Appended = <<"NUMERIC">>)
            /\ (p = None /\ IsSome(z)) => (res = "Panic" /\ f = f_pre)

C16_Witness ==
    /\ IsDecimal /\ node.precision = None /\ node.scale = Some(2)
    /\ res = "Panic" /\ f_pre # <<>>

\* the external STORED AS + LOCATION pair of a CREATE TABLE
ExternalPair ==
    <<" ", "STORED", " ", "AS", " ">> \o Atoms(Rewrite(node.file_format[1], ctx))
      \o <<" ", "LOCATION", " ", "'">> \o node.location[1] \o <<"'">>

HiveStorageKind ==
    IF IsSome(node.hive_formats) /\ IsSome(node.hive_formats[1].storage)
    THEN node.hive_formats[1].storage[1].kind ELSE "none"

HiveLocation ==
    IF IsSome(node.hive_formats) THEN node.hive_formats[1].location ELSE None

\* the storage clauses of the text: every STORED but that of the SKEWED BY
\* clause's STORED AS DIRECTORIES
StorageClauses ==
    Count(Appended, "STORED") - Count(Appended, "DIRECTORIES")

\* C17: an external CREATE TABLE, carrying its file format and location, is
\* rendered with STORED AS file_format directly followed by LOCATION
\* 'location', once, and without the Hive file-format STORED AS clause and
\* the Hive LOCATION; a CREATE TABLE that is not external has only the Hive
\* clauses. So the text holds LOCATION at most once.
C17_ExternalStorage ==
    (IsCreateTable /\ res = "Ok") =>
        /\ Count(Appended, "LOCATION") <= 1
        /\ (node.external /\ IsSome(node.file_format) /\ IsSome(node.location)) =>
              /\ Contains(Appended, ExternalPair)
              /\ Count(Appended, "LOCATION") = 1
              /\ StorageClauses = (IF HiveStorageKind = "IOF" THEN 2 ELSE 1)
              /\ HiveStorageKind = "FileFormat" =>
                    ~Contains(Appended,
                              <<" ", "STORED", " ", "AS", " ">>
                                \o Atoms(Rewrite(node.hive_formats[1].storage[1].format, ctx)))
              /\ IsSome(HiveLocation) =>
                    ~Contains(Appended, <<"LOCATION", " ", "'">> \o HiveLocation[1] \o <<"'">>)
        /\ ~node.external =>
              /\ StorageClauses = (IF HiveStorageKind = "none" THEN 0 ELSE 1)
              /\ Count(Appended, "LOCATION") = (IF IsSome(HiveLocation) THEN 1 ELSE 0)

C17_Witness ==
    /\ IsCreateTable /\ res = "Ok" /\ node.external
    /\ HiveStorageKind = "FileFormat" /\ IsSome(HiveLocation)
    /\ Contains(Appended, ExternalPair)

C18_WitnessAnalyse ==
    /\ IsSome(retry) /\ pass = "analyse" /\ res = "Err"
    /\ acc_pre # <<>> /\ acc # acc_pre /\ retry[1].out = acc

IsKeyword == pass = "rewrite" /\ node.ty \in KeywordSets

\* C19 as stated: the text a variant of a closed keyword set is rendered as
\* is the text of no other variant of the same set.
C19_KeywordsInjective ==
    IsKeyword =>
        /\ res = "Ok"
        /\ \A k \in Variants(node.ty) \ {node.kind} :
              Atoms(Rewrite([ty |-> node.ty, kind |-> k], ctx)) # Appended

C21_NoPartialResults ==
    (pass = "analyse" /\ res = "Err") => acc = acc_pre

C22_WitnessRewrite ==
    /\ pass = "rewrite" /\ Appended # <<>> /\ acc = <<T, T>> /\ mark # None

IsExecute == pass = "rewrite" /\ node.ty = "Statement" /\ node.kind = "Execute"

\* C23 as stated: EXECUTE with parameters is rendered as EXECUTE name, one
\* `(`, the parameters joined by comma and space, one `)`: the parentheses
\* are balanced and there is no empty `()` pair; with no parameters there is
\* no parenthesis at all.
C23_ExecuteParens ==
    IsExecute =>
        /\ res = "Ok"
        /\ node.parameters = <<>> =>
              /\ Appended = <<"EXECUTE", " ">> \o Atoms(Rewrite(node.name, ctx))
              /\ Count(Appended, "(") = 0 /\ Count(Appended, ")") = 0
        /\ node.parameters # <<>> =>
              /\ Appended = <<"EXECUTE", " ">> \o Atoms(Rewrite(node.name, ctx)) \o <<"(">>
                               \o Joined(Texts(node.parameters), <<",", " ">>) \o <<")">>
              /\ Count(Appended, "(") = 1 /\ Count(Appended, ")") = 1
              /\ ~Contains(Appended, <<"(", ")">>)

IsCreateDatabase == pass = "rewrite" /\ node.ty = "Statement" /\ node.kind = "CreateDatabase"

IsCreateSchema == pass = "rewrite" /\ node.ty = "Statement" /\ node.kind = "CreateSchema"

OptionalLocation(kw, l) ==
    IF IsSome(l) THEN <<" ", kw, " ", "'">> \o l[1] \o <<"'">> ELSE <<>>

\* C25 as stated: CREATE DATABASE is rendered as CREATE DATABASE, IF NOT
\* EXISTS when set, the name, then LOCATION 'l' and MANAGEDLOCATION 'ml' when
\* present; CREATE SCHEMA as CREATE SCHEMA, IF NOT EXISTS when set, the
\* name. The object keyword stands between CREATE and the name.
C25_CreateDatabaseKeyword ==
    /\ IsCreateSchema =>
          (res = "Ok" /\ Appended = <<"CREATE", " ", "SCHEMA", " ">>
              \o (IF node.if_not_exists THEN <<"IF", " ", "NOT", " ", "EXISTS", " ">> ELSE <<>>)
              \o Atoms(Rewrite(node.schema_name, ctx)))
    /\ IsCreateDatabase =>
          (res = "Ok" /\ Appended = <<"CREATE", " ", "DATABASE", " ">>
              \o (IF node.if_not_exists THEN <<"IF", " ", "NOT", " ", "EXISTS", " ">> ELSE <<>>)
              \o Atoms(Rewrite(node.db_name, ctx))
              \o OptionalLocation("LOCATION", node.location)
              \o OptionalLocation("MANAGEDLOCATION", node.managed_location))

\* the part of the rendered CREATE TABLE that the Hive distribution block wrote
HiveDistributionText ==
    LET before == Len(ClauseText("flags")) + Len(ClauseText("name"))
                    + Len(ClauseText("columns")) + Len(ClauseText("without_rowid"))
                    + Len(ClauseText("like"))
    IN  SubSeq(Appended, before + 1, before + Len(ClauseText("hive_distribution")))

Balanced(s) ==
    /\ Count(s, "(") = Count(s, ")")
    /\ \A i \in 1..Len(s) : Count(SubSeq(s, 1, i), ")") <= Count(SubSeq(s, 1, i), "(")

\* C24 as stated: in the PARTITIONED BY, CLUSTERED BY and SKEWED BY clause of
\* a rendered CREATE TABLE the parentheses are balanced: as many `(` as `)`
\* and no prefix with more `)` than `(`; INTO n BUCKETS is there only when
\* n > 0 and SORTED BY only when its list is not empty.
C24_HiveDistributionBalanced ==
    (IsCreateTable /\ res = "Ok") =>
        LET hd == node.hive_distribution
            text == HiveDistributionText
        IN  /\ Balanced(text)
            /\ Count(text, "BUCKETS") =
                  (IF hd.kind = "CLUSTERED" /\ hd.num_buckets > 0 THEN 1 ELSE 0)
            /\ Count(text, "SORTED") =
                  (IF hd.kind = "CLUSTERED" /\ hd.sorted_by # <<>> THEN 1 ELSE 0)

IsPrefix(p, q) == Len(p) <= Len(q) /\ SubSeq(q, 1, Len(p)) = p

\* the order C26 gives for the children of a column-level FOREIGN KEY
ColumnForeignKeyOrder(o) ==
    <<o.foreign_table>> \o o.referred_columns \o o.on_delete \o o.on_update

\* the order C26 gives for the children of a table-level FOREIGN KEY
TableForeignKeyOrder(k) ==
    <<ConstraintName(k.name)>> \o k.columns \o <<k.foreign_table>> \o k.referred_columns

\* C26: analysing a column-level FOREIGN KEY analyses the foreign table, the
\* referred columns, the ON DELETE action and the ON UPDATE action in that
\* order, the list only when it is not empty and an action only when it is
\* present; analysing a table-level FOREIGN KEY analyses the constraint name,
\* the columns, the foreign table and the referred columns in that order.
\* A call that fails has analysed a prefix of that order.
C26_ForeignKeyOrder ==
    pass = "analyse" =>
        /\ (node.ty = "ColumnOptionDef" /\ node.option.kind = "ForeignKey") =>
              LET order == <<ConstraintName(node.name)>> \o ColumnForeignKeyOrder(node.option)
              IN  /\ IsPrefix(Steps(trail), order)
                  /\ res = "Ok" => Steps(trail) = order
        /\ (node.ty = "TableConstraint" /\ node.kind = "ForeignKey") =>
              /\ IsPrefix(Steps(trail), TableForeignKeyOrder(node))
              /\ res = "Ok" => Steps(trail) = TableForeignKeyOrder(node)

C26_Witness ==
    /\ pass = "analyse" /\ node.ty = "ColumnOptionDef" /\ node.option.kind = "ForeignKey"
    /\ res = "Ok" /\ node.option.referred_columns # <<>>
    /\ IsSome(node.option.on_delete) /\ IsSome(node.option.on_update)
    /\ Len(trail) = 5

\* an analyse call all of whose steps are leaf steps that record nothing
OnlyLeafSteps ==
    node.ty = "ColumnOptionDef" /\ node.option.kind \in {"Null", "NotNull", "Unique"}

IsCall(e) == e.k = "call"

\* C27: the steps for a constraint name, a ReferentialAction and the column
\* options NULL, NOT NULL and UNIQUE are made, never fail and hand nothing to
\* the accumulator, with or without a constraint name: a call made of such
\* steps only succeeds and leaves the accumulator as it was, and in any call
\* the accumulator gets none of their nodes.
C27_LeafStepsSilent ==
    pass = "analyse" =>
        /\ OnlyLeafSteps =>
              (res = "Ok" /\ acc = acc_pre
                 /\ Steps(trail) = <<ConstraintName(node.name), node.option>>)
        /\ \A i \in 1..Len(Visited) :
              Visited[i].ty \notin {"ConstraintName", "ReferentialAction", "ColumnOption"}
        /\ Len(Visited) = Len(trail) - Len(SelectSeq(trail, IsCall))

C27_Witness ==
    /\ pass = "analyse" /\ OnlyLeafSteps /\ node.name = Some(D) /\ mark = Some(D)
    /\ acc_pre # <<>> /\ acc = acc_pre /\ res = "Ok"

\* C30: what a rewrite call appends, and how it ends, is what the same call
\* with an empty context appends and how that ends; an identifier or a name
\* that the context has an entry for is written as it stands in the tree,
\* and no value of the context appears in its place.
C30_ContextIgnored ==
    pass = "rewrite" =>
        LET base == Rewrite(node, EmptyCtx) IN
        /\ Appended = Atoms(Cut(base))
        /\ res = Outcome(base)
        /\ (node.ty = "Ident" /\ res = "Ok" /\ node.quote_style = None) =>
              Appended = node.value
        /\ (node.ty = "ObjectName" /\ res = "Ok") =>
              Appended = Joined([i \in 1..Len(node.idents) |->
                                    Quoted(node.idents[i].quote_style, node.idents[i].value)],
                                <<".">>)

C30_Witness ==
    /\ pass = "rewrite" /\ node.ty = "ObjectName" /\ res = "Ok"
    /\ \E i \in 1..Len(node.idents) : HasEntry(ctx, node.idents[i].value)
    /\ Appended = <<"a", ".", "[", "t", "]">>

IsWindowSpec == pass = "rewrite" /\ node.ty = "WindowSpec"

Text(n) == Atoms(Rewrite(n, ctx))

\* the three parts of the WindowSpec held in node; an absent part is empty
WindowParts ==
    << IF node.partition_by # <<>>
       THEN <<"PARTITION", " ", "BY", " ">> \o Joined(Texts(node.partition_by), <<",", " ">>)
       ELSE <<>>,
       IF node.order_by # <<>>
       THEN <<"ORDER", " ", "BY", " ">> \o Joined(Texts(node.order_by), <<",", " ">>)
       ELSE <<>>,
       IF IsSome(node.window_frame)
       THEN LET wf == node.window_frame[1] IN
            IF IsSome(wf.end_bound)
            THEN Text(wf.units) \o <<" ", "BETWEEN", " ">> \o Text(wf.start_bound)
                   \o <<" ", "AND", " ">> \o Text(wf.end_bound[1])
            ELSE Text(wf.units) \o <<" ">> \o Text(wf.start_bound)
       ELSE <<>> >>

NotEmpty(s) == s # <<>>

\* C28: a WindowSpec is rendered as its present parts, PARTITION BY list,
\* ORDER BY list and frame, in that order with one space between two present
\* parts and no space before the first or after the last; with no part it
\* appends nothing. The frame is units BETWEEN start AND end with an end
\* bound and units start without, whatever the bounds are.
C28_WindowSpec ==
    IsWindowSpec =>
        /\ res = "Ok"
        /\ Appended = Joined(SelectSeq(WindowParts, NotEmpty), <<" ">>)
        /\ Appended # <<>> => (Appended[1] # " " /\ Appended[Len(Appended)] # " ")
        /\ (node.partition_by = <<>> /\ node.order_by = <<>> /\ node.window_frame = None) =>
              f = f_pre
        /\ Count(Appended, "PARTITION") = (IF node.partition_by # <<>> THEN 1 ELSE 0)
        /\ Count(Appended, "ORDER") = (IF node.order_by # <<>> THEN 1 ELSE 0)
        /\ Count(Appended, "BETWEEN") =
              (IF IsSome(node.window_frame) /\ IsSome(node.window_frame[1].end_bound)
               THEN 1 ELSE 0)

C28_Witness ==
    /\ IsWindowSpec /\ res = "Ok"
    /\ node.partition_by = <<>> /\ node.order_by # <<>> /\ IsSome(node.window_frame)
    /\ node.window_frame[1].start_bound = [ty |-> "WindowFrameBound", kind |-> "Following",
                                            n |-> None]
    /\ IsSome(node.window_frame[1].end_bound)
    /\ Appended[1] = "ORDER" /\ Count(Appended, "BETWEEN") = 1

IsCase == pass = "rewrite" /\ node.ty = "Expr" /\ node.kind = "Case"

Pairs == IF Len(node.conditions) <= Len(node.results)
         THEN Len(node.conditions) ELSE Len(node.results)

\* C29: a CASE expression is rendered as CASE, the operand when present, one
\* WHEN c THEN r for each position that both lists have, in list order, ELSE
\* e when an else result is present, and END; entries of the longer list
\* beyond the shorter one are left out and the call succeeds all the same.
C29_Case ==
    IsCase =>
        /\ res = "Ok"
        /\ Appended =
              <<"CASE">>
                \o (IF IsSome(node.operand) THEN <<" ">> \o Text(node.operand[1]) ELSE <<>>)
                \o Flatten([i \in 1..Pairs |->
                       <<" ", "WHEN", " ">> \o Text(node.conditions[i])
                         \o <<" ", "THEN", " ">> \o Text(node.results[i])])
                \o (IF IsSome(node.else_result)
                    THEN <<" ", "ELSE", " ">> \o Text(node.else_result[1]) ELSE <<>>)
                \o <<" ", "END">>

C29_Witness ==
    /\ IsCase /\ res = "Ok" /\ Len(node.conditions) = 2 /\ Len(node.results) = 1
    /\ IsSome(node.else_result)
    /\ Count(Appended, "WHEN") = 1 + Count(Text(node.results[1]), "WHEN")

C29_WitnessNoResult ==
    /\ IsCase /\ res = "Ok" /\ Len(node.conditions) = 1 /\ node.results = <<>>
    /\ Appended = <<"CASE", " ", "END">>

====
